---- MODULE Spec2Model ----
(***************************************************************************)
(* A model of the command guard and approval core of LocalTopSH:          *)
(*   - the command classifier (approvals/index.ts, checkCommand) with its *)
(*     regular expressions interpreted over character sequences,          *)
(*   - the pending-command store and run_command's execute,               *)
(*   - the per-user lock, the active-user set and the bot's text handler, *)
(*   - the outbound rate limiter safeSend.                                *)
(* Each subsystem has its own specification (SpecApproval, SpecUsers,     *)
(* SpecSend) over the shared variables; the variables of the other        *)
(* subsystems stay unchanged.                                             *)
(***************************************************************************)
EXTENDS Integers, Sequences, FiniteSets, TLC

(***************************************************************************)
(* Regular expressions, as JavaScript's RegExp.prototype.test decides     *)
(* them. A string is a sequence of one-character strings. A pattern is a  *)
(* tree of nodes [t, cs, rs]: t the kind, cs a set of characters, rs the  *)
(* children.                                                              *)
(***************************************************************************)
Digits == {"0", "1", "2", "3", "4", "5", "6", "7", "8", "9"}

LowerLetters ==
  {"a", "b", "c", "d", "e", "f", "g", "h", "i", "j", "k", "l", "m",
   "n", "o", "p", "q", "r", "s", "t", "u", "v", "w", "x", "y", "z"}

UpperLetters ==
  {"A", "B", "C", "D", "E", "F", "G", "H", "I", "J", "K", "L", "M",
   "N", "O", "P", "Q", "R", "S", "T", "U", "V", "W", "X", "Y", "Z"}

\* \w
WordChars == LowerLetters \cup UpperLetters \cup Digits \cup {"_"}

\* \s
SpaceChars == {" ", "\t", "\n", "\r", "\f"}

Lit(c) == [t |-> "set", cs |-> {c}, rs |-> <<>>]
Cls(S) == [t |-> "set", cs |-> S, rs |-> <<>>]
AnyChar == [t |-> "any", cs |-> {}, rs |-> <<>>]
WordB == [t |-> "wb", cs |-> {}, rs |-> <<>>]
Eol == [t |-> "eol", cs |-> {}, rs |-> <<>>]
Cat(rs) == [t |-> "cat", cs |-> {}, rs |-> rs]
Alt(rs) == [t |-> "alt", cs |-> {}, rs |-> rs]
Star(r) == [t |-> "star", cs |-> {}, rs |-> <<r>>]
Plus(r) == Cat(<<r, Star(r)>>)
Opt(r) == Alt(<<r, Cat(<<>>)>>)
Str(s) == Cat([k \in 1..Len(s) |-> Lit(s[k])])
Space == Cls(SpaceChars)
WordCh == Cls(WordChars)

\* \b holds at position i (between s[i-1] and s[i]).
IsWordBoundary(s, i) ==
  LET before == i > 1 /\ s[i - 1] \in WordChars
      after == i <= Len(s) /\ s[i] \in WordChars
  IN before # after

RECURSIVE Ends(_, _, _)
RECURSIVE EndsCat(_, _, _, _)
RECURSIVE EndsStar(_, _, _, _)

\* The positions j such that pattern r matches s[i .. j-1].
Ends(r, s, i) ==
  CASE r.t = "set" -> IF i <= Len(s) /\ s[i] \in r.cs THEN {i + 1} ELSE {}
    [] r.t = "any" -> IF i <= Len(s) /\ s[i] \notin {"\n", "\r"} THEN {i + 1} ELSE {}
    [] r.t = "wb" -> IF IsWordBoundary(s, i) THEN {i} ELSE {}
    [] r.t = "eol" -> IF i = Len(s) + 1 THEN {i} ELSE {}
    [] r.t = "cat" -> EndsCat(r.rs, 1, s, {i})
    [] r.t = "alt" -> UNION {Ends(r.rs[k], s, i) : k \in 1..Len(r.rs)}
    [] r.t = "star" -> EndsStar(r.rs[1], s, {i}, {i})

\* The positions reached from the positions P by the children rs[k..].
EndsCat(rs, k, s, P) ==
  IF k > Len(rs) \/ P = {} THEN P
  ELSE EndsCat(rs, k + 1, s, UNION {Ends(rs[k], s, p) : p \in P})

\* The positions reached by zero or more repetitions of r: acc the positions
\* reached so far, frontier those not yet extended.
EndsStar(r, s, frontier, acc) ==
  LET next == UNION {Ends(r, s, p) : p \in frontier} \ acc
  IN IF next = {} THEN acc ELSE EndsStar(r, s, next, acc \cup next)

\* pattern.test(s): the pattern matches somewhere in s.
Test(r, s) == \E i \in 1..(Len(s) + 1) : Ends(r, s, i) # {}

(***************************************************************************)
(* State.                                                                 *)
(***************************************************************************)
VARIABLES
  now,                  \* Date.now(), in ms
  pendingCommands,      \* approvals: Map id -> PendingCommand
  timers,               \* approvals: the setTimeout callbacks, run or not yet
  showApprovalCallback, \* run_command: TRUE once a callback is registered
  shown,                \* the calls made to the show-approval callback
  executed,             \* the calls made to executeCommand
  consumeLog,           \* the records consumePendingCommand returned
  lastCall,             \* the last call of execute, approve, deny or cancel
  nextSerial,           \* number of storePendingCommand calls so far, plus 1
  maxConcurrentUsers,   \* rate-limiter: the capacity
  activeUsers,          \* rate-limiter: Set of user ids
  userLocks,            \* rate-limiter: Map user id -> the promise of the last caller
  resolvedLocks,        \* the promises of userLocks that are resolved
  handlers,             \* the runs of the text handler, in order of arrival
  lockCalls,            \* the handlers that called withUserLock, in order of call
  globalLastSend,       \* rate-limiter: time of the last send
  lastGroupMessage,     \* rate-limiter: Map chat id -> time of the last message
  sendMutex,            \* rate-limiter: the promise of the last safeSend caller
  released,             \* the promises of sendMutex that are resolved
  sends,                \* the calls of safeSend, in order of call
  sendLog,              \* the invocations of send functions, in order
  directLog,            \* the messages sent to Telegram without safeSend, in order
  fs,                   \* the file system: Map canonical path -> node
  fileCall,             \* the last call of executeRead or executeWrite
  checks,               \* the calls of checkCommand made by the security test
  calls,                \* the calls of checkCommand on arbitrary commands, in order
  split                 \* the last call of splitMessage

approvalVars ==
  <<pendingCommands, timers, showApprovalCallback, shown, executed,
    consumeLog, lastCall, nextSerial>>

userVars ==
  <<maxConcurrentUsers, activeUsers, userLocks, resolvedLocks, handlers, lockCalls>>

sendVars ==
  <<globalLastSend, lastGroupMessage, sendMutex, released, sends, sendLog, directLog>>

fileVars == <<fs, fileCall>>

classifyVars == <<checks>>

pureVars == <<calls, split>>

vars == <<now, approvalVars, userVars, sendVars, fileVars, classifyVars, pureVars>>

(***************************************************************************)
(* approvals/index.ts: the dangerous-command patterns, in declared order. *)
(* Each tree is the regular expression of the quoted source line.         *)
(***************************************************************************)
DANGEROUS_PATTERNS == <<
  \* 1 (line 19): /\brm\s+(-[rf]+\s+)*[\/~]/
  [pattern |->
     Cat(<<WordB, Str(<<"r", "m">>), Plus(Space), Star(Cat(<<Lit("-"),
     Plus(Cls({"f", "r"})), Plus(Space)>>)), Cls({"/", "~"})>>),
   reason |-> "Recursive delete from root/home"],
  \* 2 (line 20): /\brm\s+-[rf]*\s*\*/
  [pattern |->
     Cat(<<WordB, Str(<<"r", "m">>), Plus(Space), Lit("-"), Star(Cls({"f",
     "r"})), Star(Space), Lit("*")>>),
   reason |-> "Wildcard delete"],
  \* 3 (line 21): /\brm\s+-rf\b/
  [pattern |->
     Cat(<<WordB, Str(<<"r", "m">>), Plus(Space), Str(<<"-", "r", "f">>),
     WordB>>),
   reason |-> "Force recursive delete"],
  \* 4 (line 22): /\brmdir\s+--ignore-fail-on-non-empty/
  [pattern |->
     Cat(<<WordB, Str(<<"r", "m", "d", "i", "r">>), Plus(Space), Str(<<"-",
     "-", "i", "g", "n", "o", "r", "e", "-", "f", "a", "i", "l", "-", "o",
     "n", "-", "n", "o", "n", "-", "e", "m", "p", "t", "y">>)>>),
   reason |-> "Force directory removal"],
  \* 5 (line 25): /\bsudo\b/
  [pattern |->
     Cat(<<WordB, Str(<<"s", "u", "d", "o">>), WordB>>),
   reason |-> "Root privileges"],
  \* 6 (line 26): /\bsu\s+-?\s*$/
  [pattern |->
     Cat(<<WordB, Str(<<"s", "u">>), Plus(Space), Opt(Lit("-")), Star(Space),
     Eol>>),
   reason |-> "Switch to root"],
  \* 7 (line 27): /\bchown\s+-R\s+root/
  [pattern |->
     Cat(<<WordB, Str(<<"c", "h", "o", "w", "n">>), Plus(Space), Str(<<"-",
     "R">>), Plus(Space), Str(<<"r", "o", "o", "t">>)>>),
   reason |-> "Change ownership to root"],
  \* 8 (line 30): /\bchmod\s+(-R\s+)?[0-7]*7[0-7]{2}\b/
  [pattern |->
     Cat(<<WordB, Str(<<"c", "h", "m", "o", "d">>), Plus(Space),
     Opt(Cat(<<Str(<<"-", "R">>), Plus(Space)>>)), Star(Cls({"0", "1", "2",
     "3", "4", "5", "6", "7"})), Lit("7"), Cat(<<Cls({"0", "1", "2", "3",
     "4", "5", "6", "7"}), Cls({"0", "1", "2", "3", "4", "5", "6", "7"})>>),
     WordB>>),
   reason |-> "World-writable permissions"],
  \* 9 (line 31): /\bchmod\s+(-R\s+)?777\b/
  [pattern |->
     Cat(<<WordB, Str(<<"c", "h", "m", "o", "d">>), Plus(Space),
     Opt(Cat(<<Str(<<"-", "R">>), Plus(Space)>>)), Str(<<"7", "7", "7">>),
     WordB>>),
   reason |-> "Full permissions to everyone"],
  \* 10 (line 32): /\bchmod\s+\+s\b/
  [pattern |->
     Cat(<<WordB, Str(<<"c", "h", "m", "o", "d">>), Plus(Space), Str(<<"+",
     "s">>), WordB>>),
   reason |-> "Set SUID/SGID bit"],
  \* 11 (line 35): /\bmkfs\b/
  [pattern |->
     Cat(<<WordB, Str(<<"m", "k", "f", "s">>), WordB>>),
   reason |-> "Format filesystem"],
  \* 12 (line 36): /\bdd\s+.*of=\/dev\//
  [pattern |->
     Cat(<<WordB, Str(<<"d", "d">>), Plus(Space), Star(AnyChar), Str(<<"o",
     "f", "=", "/", "d", "e", "v", "/">>)>>),
   reason |-> "Direct disk write"],
  \* 13 (line 37): />\s*\/dev\/[sh]d[a-z]/
  [pattern |->
     Cat(<<Lit(">"), Star(Space), Str(<<"/", "d", "e", "v", "/">>), Cls({"h",
     "s"}), Lit("d"), Cls({"a", "b", "c", "d", "e", "f", "g", "h", "i", "j",
     "k", "l", "m", "n", "o", "p", "q", "r", "s", "t", "u", "v", "w", "x",
     "y", "z"})>>),
   reason |-> "Redirect to disk device"],
  \* 14 (line 38): /\bfdisk\b/
  [pattern |->
     Cat(<<WordB, Str(<<"f", "d", "i", "s", "k">>), WordB>>),
   reason |-> "Partition manipulation"],
  \* 15 (line 39): /\bparted\b/
  [pattern |->
     Cat(<<WordB, Str(<<"p", "a", "r", "t", "e", "d">>), WordB>>),
   reason |-> "Partition manipulation"],
  \* 16 (line 42): /\biptables\s+(-F|--flush)/
  [pattern |->
     Cat(<<WordB, Str(<<"i", "p", "t", "a", "b", "l", "e", "s">>),
     Plus(Space), Alt(<<Str(<<"-", "F">>), Str(<<"-", "-", "f", "l", "u",
     "s", "h">>)>>)>>),
   reason |-> "Flush firewall rules"],
  \* 17 (line 43): /\bufw\s+disable/
  [pattern |->
     Cat(<<WordB, Str(<<"u", "f", "w">>), Plus(Space), Str(<<"d", "i", "s",
     "a", "b", "l", "e">>)>>),
   reason |-> "Disable firewall"],
  \* 18 (line 44): /\bsystemctl\s+(stop|disable)\s+(ssh|firewall|ufw)/
  [pattern |->
     Cat(<<WordB, Str(<<"s", "y", "s", "t", "e", "m", "c", "t", "l">>),
     Plus(Space), Alt(<<Str(<<"s", "t", "o", "p">>), Str(<<"d", "i", "s",
     "a", "b", "l", "e">>)>>), Plus(Space), Alt(<<Str(<<"s", "s", "h">>),
     Str(<<"f", "i", "r", "e", "w", "a", "l", "l">>), Str(<<"u", "f",
     "w">>)>>)>>),
   reason |-> "Stop security service"],
  \* 19 (line 47): /\bapt(-get)?\s+(remove|purge)\s+.*-y/
  [pattern |->
     Cat(<<WordB, Str(<<"a", "p", "t">>), Opt(Str(<<"-", "g", "e", "t">>)),
     Plus(Space), Alt(<<Str(<<"r", "e", "m", "o", "v", "e">>), Str(<<"p",
     "u", "r", "g", "e">>)>>), Plus(Space), Star(AnyChar), Str(<<"-",
     "y">>)>>),
   reason |-> "Auto-confirm package removal"],
  \* 20 (line 48): /\byum\s+remove\s+.*-y/
  [pattern |->
     Cat(<<WordB, Str(<<"y", "u", "m">>), Plus(Space), Str(<<"r", "e", "m",
     "o", "v", "e">>), Plus(Space), Star(AnyChar), Str(<<"-", "y">>)>>),
   reason |-> "Auto-confirm package removal"],
  \* 21 (line 49): /\bpip\s+uninstall\s+.*-y/
  [pattern |->
     Cat(<<WordB, Str(<<"p", "i", "p">>), Plus(Space), Str(<<"u", "n", "i",
     "n", "s", "t", "a", "l", "l">>), Plus(Space), Star(AnyChar), Str(<<"-",
     "y">>)>>),
   reason |-> "Auto-confirm pip uninstall"],
  \* 22 (line 52): /\btruncate\s+-s\s*0/
  [pattern |->
     Cat(<<WordB, Str(<<"t", "r", "u", "n", "c", "a", "t", "e">>),
     Plus(Space), Str(<<"-", "s">>), Star(Space), Lit("0")>>),
   reason |-> "Truncate file to zero"],
  \* 23 (line 53): />\s*\/etc\//
  [pattern |->
     Cat(<<Lit(">"), Star(Space), Str(<<"/", "e", "t", "c", "/">>)>>),
   reason |-> "Overwrite system config"],
  \* 24 (line 54): /\bshred\b/
  [pattern |->
     Cat(<<WordB, Str(<<"s", "h", "r", "e", "d">>), WordB>>),
   reason |-> "Secure file deletion"],
  \* 25 (line 57): /\bkill\s+-9\s+-1\b/
  [pattern |->
     Cat(<<WordB, Str(<<"k", "i", "l", "l">>), Plus(Space), Str(<<"-",
     "9">>), Plus(Space), Str(<<"-", "1">>), WordB>>),
   reason |-> "Kill all processes"],
  \* 26 (line 58): /\bkillall\s+-9/
  [pattern |->
     Cat(<<WordB, Str(<<"k", "i", "l", "l", "a", "l", "l">>), Plus(Space),
     Str(<<"-", "9">>)>>),
   reason |-> "Force kill processes"],
  \* 27 (line 59): /\bshutdown\b/
  [pattern |->
     Cat(<<WordB, Str(<<"s", "h", "u", "t", "d", "o", "w", "n">>), WordB>>),
   reason |-> "System shutdown"],
  \* 28 (line 60): /\breboot\b/
  [pattern |->
     Cat(<<WordB, Str(<<"r", "e", "b", "o", "o", "t">>), WordB>>),
   reason |-> "System reboot"],
  \* 29 (line 61): /\binit\s+[06]\b/
  [pattern |->
     Cat(<<WordB, Str(<<"i", "n", "i", "t">>), Plus(Space), Cls({"0", "6"}),
     WordB>>),
   reason |-> "System halt/reboot"],
  \* 30 (line 64): /curl.*\|\s*(ba)?sh/
  [pattern |->
     Cat(<<Str(<<"c", "u", "r", "l">>), Star(AnyChar), Lit("|"), Star(Space),
     Opt(Str(<<"b", "a">>)), Str(<<"s", "h">>)>>),
   reason |-> "Pipe URL to shell"],
  \* 31 (line 65): /wget.*\|\s*(ba)?sh/
  [pattern |->
     Cat(<<Str(<<"w", "g", "e", "t">>), Star(AnyChar), Lit("|"), Star(Space),
     Opt(Str(<<"b", "a">>)), Str(<<"s", "h">>)>>),
   reason |-> "Pipe URL to shell"],
  \* 32 (line 66): /\beval\s+"?\$\(curl/
  [pattern |->
     Cat(<<WordB, Str(<<"e", "v", "a", "l">>), Plus(Space), Opt(Lit("\"")),
     Str(<<"$", "(", "c", "u", "r", "l">>)>>),
   reason |-> "Eval remote code"],
  \* 33 (line 69): /\bgit\s+push\s+.*--force/
  [pattern |->
     Cat(<<WordB, Str(<<"g", "i", "t">>), Plus(Space), Str(<<"p", "u", "s",
     "h">>), Plus(Space), Star(AnyChar), Str(<<"-", "-", "f", "o", "r", "c",
     "e">>)>>),
   reason |-> "Force push (rewrites history)"],
  \* 34 (line 70): /\bgit\s+reset\s+--hard\s+HEAD~/
  [pattern |->
     Cat(<<WordB, Str(<<"g", "i", "t">>), Plus(Space), Str(<<"r", "e", "s",
     "e", "t">>), Plus(Space), Str(<<"-", "-", "h", "a", "r", "d">>),
     Plus(Space), Str(<<"H", "E", "A", "D", "~">>)>>),
   reason |-> "Hard reset (lose commits)"],
  \* 35 (line 71): /\bgit\s+clean\s+-fd/
  [pattern |->
     Cat(<<WordB, Str(<<"g", "i", "t">>), Plus(Space), Str(<<"c", "l", "e",
     "a", "n">>), Plus(Space), Str(<<"-", "f", "d">>)>>),
   reason |-> "Force clean untracked files"],
  \* 36 (line 74): /\bDROP\s+(DATABASE|TABLE)\b/i
  [pattern |->
     Cat(<<WordB, Cls({"D", "d"}), Cls({"R", "r"}), Cls({"O", "o"}),
     Cls({"P", "p"}), Plus(Space), Alt(<<Cat(<<Cls({"D", "d"}), Cls({"A",
     "a"}), Cls({"T", "t"}), Cls({"A", "a"}), Cls({"B", "b"}), Cls({"A",
     "a"}), Cls({"S", "s"}), Cls({"E", "e"})>>), Cat(<<Cls({"T", "t"}),
     Cls({"A", "a"}), Cls({"B", "b"}), Cls({"L", "l"}), Cls({"E",
     "e"})>>)>>), WordB>>),
   reason |-> "Drop database/table"],
  \* 37 (line 75): /\bTRUNCATE\s+TABLE\b/i
  [pattern |->
     Cat(<<WordB, Cls({"T", "t"}), Cls({"R", "r"}), Cls({"U", "u"}),
     Cls({"N", "n"}), Cls({"C", "c"}), Cls({"A", "a"}), Cls({"T", "t"}),
     Cls({"E", "e"}), Plus(Space), Cls({"T", "t"}), Cls({"A", "a"}),
     Cls({"B", "b"}), Cls({"L", "l"}), Cls({"E", "e"}), WordB>>),
   reason |-> "Truncate table"],
  \* 38 (line 76): /\bDELETE\s+FROM\s+\w+\s*;?\s*$/i
  [pattern |->
     Cat(<<WordB, Cls({"D", "d"}), Cls({"E", "e"}), Cls({"L", "l"}),
     Cls({"E", "e"}), Cls({"T", "t"}), Cls({"E", "e"}), Plus(Space),
     Cls({"F", "f"}), Cls({"R", "r"}), Cls({"O", "o"}), Cls({"M", "m"}),
     Plus(Space), Plus(WordCh), Star(Space), Opt(Lit(";")), Star(Space),
     Eol>>),
   reason |-> "Delete all rows (no WHERE)"],
  \* 39 (line 79): /\bexport\s+(PATH|LD_PRELOAD|LD_LIBRARY_PATH)=/
  [pattern |->
     Cat(<<WordB, Str(<<"e", "x", "p", "o", "r", "t">>), Plus(Space),
     Alt(<<Str(<<"P", "A", "T", "H">>), Str(<<"L", "D", "_", "P", "R", "E",
     "L", "O", "A", "D">>), Str(<<"L", "D", "_", "L", "I", "B", "R", "A",
     "R", "Y", "_", "P", "A", "T", "H">>)>>), Lit("=")>>),
   reason |-> "Modify critical env var"],
  \* 40 (line 80): /\bunset\s+(PATH|HOME)\b/
  [pattern |->
     Cat(<<WordB, Str(<<"u", "n", "s", "e", "t">>), Plus(Space),
     Alt(<<Str(<<"P", "A", "T", "H">>), Str(<<"H", "O", "M", "E">>)>>),
     WordB>>),
   reason |-> "Unset critical env var"],
  \* 41 (line 83): /:\(\)\s*{\s*:\|:&\s*}/
  [pattern |->
     Cat(<<Str(<<":", "(", ")">>), Star(Space), Lit("{"), Star(Space),
     Str(<<":", "|", ":", "&">>), Star(Space), Lit("}")>>),
   reason |-> "Fork bomb"],
  \* 42 (line 84): /while\s+true.*do.*done/
  [pattern |->
     Cat(<<Str(<<"w", "h", "i", "l", "e">>), Plus(Space), Str(<<"t", "r",
     "u", "e">>), Star(AnyChar), Str(<<"d", "o">>), Star(AnyChar), Str(<<"d",
     "o", "n", "e">>)>>),
   reason |-> "Infinite loop"]
>>

undefined == "undefined"

RECURSIVE checkCommandFrom(_, _)
\* The for loop of checkCommand from pattern k on: the first match returns.
checkCommandFrom(command, k) ==
  IF k > Len(DANGEROUS_PATTERNS) THEN [dangerous |-> FALSE, reason |-> undefined]
  ELSE IF Test(DANGEROUS_PATTERNS[k].pattern, command)
       THEN [dangerous |-> TRUE, reason |-> DANGEROUS_PATTERNS[k].reason]
       ELSE checkCommandFrom(command, k + 1)

\* A check that finds every command dangerous.
checkCommandAlwaysDangerous(command) ==
  [dangerous |-> TRUE, reason |-> "Dangerous"]

\* A check that lets the last matching pattern, not the first, give the reason.
checkCommandLastMatch(command) ==
  LET hits == {k \in 1..Len(DANGEROUS_PATTERNS) :
                 Test(DANGEROUS_PATTERNS[k].pattern, command)}
  IN IF hits = {} THEN [dangerous |-> FALSE, reason |-> undefined]
     ELSE [dangerous |-> TRUE,
           reason |-> DANGEROUS_PATTERNS[CHOOSE k \in hits : \A j \in hits : j <= k].reason]

checkCommand(command) == checkCommandFrom(command, 1)

(***************************************************************************)
(* The security test of the repository: checkCommand on a list of attack   *)
(* commands and of legitimate ones, and what the test reads of the result. *)
(***************************************************************************)
Attack(line, group, cmd, expected) ==
  [line |-> line, group |-> group, cmd |-> cmd, expected |-> expected]

\* const attacks, with the line of the test and the comment above the entry.
attacks == <<
  \* cat /run/secrets/telegram_token
  Attack(9, "Direct secrets access",
    <<"c", "a", "t", " ", "/", "r", "u", "n", "/", "s", "e", "c", "r", "e",
    "t", "s", "/", "t", "e", "l", "e", "g", "r", "a", "m", "_", "t", "o",
    "k", "e", "n">>, "blocked"),
  \* cat /run/secrets/api_key
  Attack(10, "Direct secrets access",
    <<"c", "a", "t", " ", "/", "r", "u", "n", "/", "s", "e", "c", "r", "e",
    "t", "s", "/", "a", "p", "i", "_", "k", "e", "y">>, "blocked"),
  \* ls /run/secrets/
  Attack(11, "Direct secrets access",
    <<"l", "s", " ", "/", "r", "u", "n", "/", "s", "e", "c", "r", "e", "t",
    "s", "/">>, "blocked"),
  \* head /run/secrets/telegram_token
  Attack(12, "Direct secrets access",
    <<"h", "e", "a", "d", " ", "/", "r", "u", "n", "/", "s", "e", "c", "r",
    "e", "t", "s", "/", "t", "e", "l", "e", "g", "r", "a", "m", "_", "t",
    "o", "k", "e", "n">>, "blocked"),
  \* ln -s /run/secrets/telegram_token ~/tok
  Attack(15, "Symlink attacks",
    <<"l", "n", " ", "-", "s", " ", "/", "r", "u", "n", "/", "s", "e", "c",
    "r", "e", "t", "s", "/", "t", "e", "l", "e", "g", "r", "a", "m", "_",
    "t", "o", "k", "e", "n", " ", "~", "/", "t", "o", "k">>, "blocked"),
  \* ln -s /run/secrets ~/secrets
  Attack(16, "Symlink attacks",
    <<"l", "n", " ", "-", "s", " ", "/", "r", "u", "n", "/", "s", "e", "c",
    "r", "e", "t", "s", " ", "~", "/", "s", "e", "c", "r", "e", "t", "s">>, "blocked"),
  \* base64 /run/secrets/telegram_token
  Attack(19, "Base64 exfiltration",
    <<"b", "a", "s", "e", "6", "4", " ", "/", "r", "u", "n", "/", "s", "e",
    "c", "r", "e", "t", "s", "/", "t", "e", "l", "e", "g", "r", "a", "m",
    "_", "t", "o", "k", "e", "n">>, "blocked"),
  \* cat file | base64
  Attack(20, "Base64 exfiltration",
    <<"c", "a", "t", " ", "f", "i", "l", "e", " ", "|", " ", "b", "a", "s",
    "e", "6", "4">>, "blocked"),
  \* base64 < /etc/passwd
  Attack(21, "Base64 exfiltration",
    <<"b", "a", "s", "e", "6", "4", " ", "<", " ", "/", "e", "t", "c", "/",
    "p", "a", "s", "s", "w", "d">>, "blocked"),
  \* python3 -c "print(open('/run/secrets/telegram_token').read())"
  Attack(24, "Python attacks",
    <<"p", "y", "t", "h", "o", "n", "3", " ", "-", "c", " ", "\"", "p", "r",
    "i", "n", "t", "(", "o", "p", "e", "n", "(", "'", "/", "r", "u", "n",
    "/", "s", "e", "c", "r", "e", "t", "s", "/", "t", "e", "l", "e", "g",
    "r", "a", "m", "_", "t", "o", "k", "e", "n", "'", ")", ".", "r", "e",
    "a", "d", "(", ")", ")", "\"">>, "blocked"),
  \* python3 -c "import os; print(os.environ)"
  Attack(25, "Python attacks",
    <<"p", "y", "t", "h", "o", "n", "3", " ", "-", "c", " ", "\"", "i", "m",
    "p", "o", "r", "t", " ", "o", "s", ";", " ", "p", "r", "i", "n", "t",
    "(", "o", "s", ".", "e", "n", "v", "i", "r", "o", "n", ")", "\"">>, "blocked"),
  \* python3 -c "from os import environ; print(environ)"
  Attack(26, "Python attacks",
    <<"p", "y", "t", "h", "o", "n", "3", " ", "-", "c", " ", "\"", "f", "r",
    "o", "m", " ", "o", "s", " ", "i", "m", "p", "o", "r", "t", " ", "e",
    "n", "v", "i", "r", "o", "n", ";", " ", "p", "r", "i", "n", "t", "(",
    "e", "n", "v", "i", "r", "o", "n", ")", "\"">>, "blocked"),
  \* node -e "console.log(process.env)"
  Attack(29, "Node.js attacks",
    <<"n", "o", "d", "e", " ", "-", "e", " ", "\"", "c", "o", "n", "s", "o",
    "l", "e", ".", "l", "o", "g", "(", "p", "r", "o", "c", "e", "s", "s",
    ".", "e", "n", "v", ")", "\"">>, "blocked"),
  \* node -p "process.env.TELEGRAM_TOKEN"
  Attack(30, "Node.js attacks",
    <<"n", "o", "d", "e", " ", "-", "p", " ", "\"", "p", "r", "o", "c", "e",
    "s", "s", ".", "e", "n", "v", ".", "T", "E", "L", "E", "G", "R", "A",
    "M", "_", "T", "O", "K", "E", "N", "\"">>, "blocked"),
  \* node -e "require('fs').readFileSync('/run/secrets/api_key')"
  Attack(31, "Node.js attacks",
    <<"n", "o", "d", "e", " ", "-", "e", " ", "\"", "r", "e", "q", "u", "i",
    "r", "e", "(", "'", "f", "s", "'", ")", ".", "r", "e", "a", "d", "F",
    "i", "l", "e", "S", "y", "n", "c", "(", "'", "/", "r", "u", "n", "/",
    "s", "e", "c", "r", "e", "t", "s", "/", "a", "p", "i", "_", "k", "e",
    "y", "'", ")", "\"">>, "blocked"),
  \* env
  Attack(34, "Env commands",
    <<"e", "n", "v">>, "blocked"),
  \* printenv
  Attack(35, "Env commands",
    <<"p", "r", "i", "n", "t", "e", "n", "v">>, "blocked"),
  \* export
  Attack(36, "Env commands",
    <<"e", "x", "p", "o", "r", "t">>, "blocked"),
  \* set
  Attack(37, "Env commands",
    <<"s", "e", "t">>, "blocked"),
  \* echo $TELEGRAM_TOKEN
  Attack(38, "Env commands",
    <<"e", "c", "h", "o", " ", "$", "T", "E", "L", "E", "G", "R", "A", "M",
    "_", "T", "O", "K", "E", "N">>, "blocked"),
  \* echo ${API_KEY}
  Attack(39, "Env commands",
    <<"e", "c", "h", "o", " ", "$", "{", "A", "P", "I", "_", "K", "E", "Y",
    "}">>, "blocked"),
  \* cat /proc/self/environ
  Attack(42, "Proc filesystem",
    <<"c", "a", "t", " ", "/", "p", "r", "o", "c", "/", "s", "e", "l", "f",
    "/", "e", "n", "v", "i", "r", "o", "n">>, "blocked"),
  \* cat /proc/1/environ
  Attack(43, "Proc filesystem",
    <<"c", "a", "t", " ", "/", "p", "r", "o", "c", "/", "1", "/", "e", "n",
    "v", "i", "r", "o", "n">>, "blocked"),
  \* strings /proc/self/environ
  Attack(44, "Proc filesystem",
    <<"s", "t", "r", "i", "n", "g", "s", " ", "/", "p", "r", "o", "c", "/",
    "s", "e", "l", "f", "/", "e", "n", "v", "i", "r", "o", "n">>, "blocked"),
  \* curl http://proxy:3200/health
  Attack(47, "Curl to internal services",
    <<"c", "u", "r", "l", " ", "h", "t", "t", "p", ":", "/", "/", "p", "r",
    "o", "x", "y", ":", "3", "2", "0", "0", "/", "h", "e", "a", "l", "t",
    "h">>, "blocked"),
  \* wget http://proxy:3200/
  Attack(48, "Curl to internal services",
    <<"w", "g", "e", "t", " ", "h", "t", "t", "p", ":", "/", "/", "p", "r",
    "o", "x", "y", ":", "3", "2", "0", "0", "/">>, "blocked"),
  \* curl proxy:3200
  Attack(49, "Curl to internal services",
    <<"c", "u", "r", "l", " ", "p", "r", "o", "x", "y", ":", "3", "2", "0",
    "0">>, "blocked"),
  \* npx super-test-json
  Attack(52, "NPX malicious packages",
    <<"n", "p", "x", " ", "s", "u", "p", "e", "r", "-", "t", "e", "s", "t",
    "-", "j", "s", "o", "n">>, "blocked"),
  \* npx env-dump
  Attack(53, "NPX malicious packages",
    <<"n", "p", "x", " ", "e", "n", "v", "-", "d", "u", "m", "p">>, "blocked"),
  \* npx debug-tool
  Attack(54, "NPX malicious packages",
    <<"n", "p", "x", " ", "d", "e", "b", "u", "g", "-", "t", "o", "o", "l">>, "blocked"),
  \* npx diag-check
  Attack(55, "NPX malicious packages",
    <<"n", "p", "x", " ", "d", "i", "a", "g", "-", "c", "h", "e", "c", "k">>, "blocked"),
  \* xxd /run/secrets/telegram_token
  Attack(58, "Hex dump",
    <<"x", "x", "d", " ", "/", "r", "u", "n", "/", "s", "e", "c", "r", "e",
    "t", "s", "/", "t", "e", "l", "e", "g", "r", "a", "m", "_", "t", "o",
    "k", "e", "n">>, "blocked"),
  \* hexdump -C /etc/passwd
  Attack(59, "Hex dump",
    <<"h", "e", "x", "d", "u", "m", "p", " ", "-", "C", " ", "/", "e", "t",
    "c", "/", "p", "a", "s", "s", "w", "d">>, "blocked"),
  \* od -c /run/secrets/api_key
  Attack(60, "Hex dump",
    <<"o", "d", " ", "-", "c", " ", "/", "r", "u", "n", "/", "s", "e", "c",
    "r", "e", "t", "s", "/", "a", "p", "i", "_", "k", "e", "y">>, "blocked"),
  \* openssl enc -base64 -in /run/secrets/api_key
  Attack(63, "OpenSSL encoding",
    <<"o", "p", "e", "n", "s", "s", "l", " ", "e", "n", "c", " ", "-", "b",
    "a", "s", "e", "6", "4", " ", "-", "i", "n", " ", "/", "r", "u", "n",
    "/", "s", "e", "c", "r", "e", "t", "s", "/", "a", "p", "i", "_", "k",
    "e", "y">>, "blocked"),
  \* ls -la
  Attack(66, "These SHOULD work (legitimate commands)",
    <<"l", "s", " ", "-", "l", "a">>, "allowed"),
  \* pwd
  Attack(67, "These SHOULD work (legitimate commands)",
    <<"p", "w", "d">>, "allowed"),
  \* echo hello
  Attack(68, "These SHOULD work (legitimate commands)",
    <<"e", "c", "h", "o", " ", "h", "e", "l", "l", "o">>, "allowed"),
  \* python3 -c "print(1+1)"
  Attack(69, "These SHOULD work (legitimate commands)",
    <<"p", "y", "t", "h", "o", "n", "3", " ", "-", "c", " ", "\"", "p", "r",
    "i", "n", "t", "(", "1", "+", "1", ")", "\"">>, "allowed"),
  \* node -e "console.log(1+1)"
  Attack(70, "These SHOULD work (legitimate commands)",
    <<"n", "o", "d", "e", " ", "-", "e", " ", "\"", "c", "o", "n", "s", "o",
    "l", "e", ".", "l", "o", "g", "(", "1", "+", "1", ")", "\"">>, "allowed"),
  \* curl https://google.com
  Attack(71, "These SHOULD work (legitimate commands)",
    <<"c", "u", "r", "l", " ", "h", "t", "t", "p", "s", ":", "/", "/", "g",
    "o", "o", "g", "l", "e", ".", "c", "o", "m">>, "allowed"),
  \* pip install requests
  Attack(72, "These SHOULD work (legitimate commands)",
    <<"p", "i", "p", " ", "i", "n", "s", "t", "a", "l", "l", " ", "r", "e",
    "q", "u", "e", "s", "t", "s">>, "allowed")
>>


(***************************************************************************)
(* Bounds of the model.                                                   *)
(***************************************************************************)
\* The value of Date.now() when the process starts.
StartTime == 1000000
\* The clock of the approval specification advances in steps of TtlTick ms,
\* MaxTicks times.
TtlTick == 300000
MaxTicks == 1
\* Calls of storePendingCommand.
MaxStores == 2

(***************************************************************************)
(* approvals/index.ts: the pending-command store.                         *)
(***************************************************************************)
\* Timeout for pending commands (5 minutes)
COMMAND_TIMEOUT == 300000

MapSet(map, key, value) ==
  [k \in DOMAIN map \cup {key} |-> IF k = key THEN value ELSE map[k]]

MapDelete(map, key) == [k \in DOMAIN map \ {key} |-> map[k]]

EmptyMap == [k \in {} |-> {}]

\* storePendingCommand at time t, Math.random() giving the suffix rnd. The
\* result is the id returned, the store and the timers after the call. serial
\* numbers the call; the code has no such field.
storePendingCommand(store, tms, sessionId, chatId, command, cwd, reason, t, rnd, serial) ==
  LET id == <<t, rnd>>
  IN [id |-> id,
      store |-> MapSet(store, id,
                       [id |-> id, sessionId |-> sessionId, chatId |-> chatId,
                        command |-> command, cwd |-> cwd, reason |-> reason,
                        createdAt |-> t, serial |-> serial]),
      timers |-> tms \cup {[id |-> id, due |-> t + COMMAND_TIMEOUT, serial |-> serial,
                            fired |-> FALSE]}]

\* consumePendingCommand without its delete.
consumeKeepsRecord(store, id) ==
  [cmd |-> IF id \in DOMAIN store THEN {store[id]} ELSE {}, store |-> store]

\* consumePendingCommand: cmd is the set holding the record returned, empty
\* when the call returns undefined.
consumePendingCommand(store, id) ==
  LET cmd == IF id \in DOMAIN store THEN {store[id]} ELSE {}
  IN [cmd |-> cmd,
      store |-> IF cmd # {} THEN MapDelete(store, id) ELSE store]

\* cancelPendingCommand answering true whatever the id.
cancelReportsTrue(store, id) ==
  [ret |-> TRUE, store |-> MapDelete(store, id)]

\* cancelPendingCommand: Map.delete returns whether the key was present.
cancelPendingCommand(store, id) ==
  [ret |-> id \in DOMAIN store, store |-> MapDelete(store, id)]

\* A callback that deletes nothing.
evictionCallbackIdle(store, id) == store

\* The callback of storePendingCommand's setTimeout.
evictionCallback(store, id) == MapDelete(store, id)

(***************************************************************************)
(* The commands and execution contexts the model runs.                    *)
(***************************************************************************)
\* ls -la
CmdLs ==
  <<"l", "s", " ", "-", "l", "a">>

\* rm -rf /run/secrets
CmdRmSecrets ==
  <<"r", "m", " ", "-", "r", "f", " ", "/", "r", "u", "n", "/", "s", "e", "c", "r", "e", "t", "s">>

Commands == {CmdLs, CmdRmSecrets}

\* rm -rf /tmp/cache
CmdRmTmp ==
  <<"r", "m", " ", "-", "r", "f", " ", "/", "t", "m", "p", "/", "c", "a", "c", "h", "e">>

\* sudo apt-get update
CmdSudo ==
  <<"s", "u", "d", "o", " ", "a", "p", "t", "-", "g", "e", "t", " ", "u", "p", "d", "a", "t", "e">>

\* :(){ :|:& };:
CmdForkBomb ==
  <<":", "(", ")", "{", " ", ":", "|", ":", "&", " ", "}", ";", ":">>

\* The commands of the security test and the three above.
ScenarioCommands ==
  {attacks[k].cmd : k \in 1..Len(attacks)} \cup {CmdRmTmp, CmdSudo, CmdForkBomb}

\* checkCommand on the commands of the model, computed once.
Classification == [c \in Commands \cup ScenarioCommands |-> checkCommand(c)]

\* The secret-exfiltration patterns of the specification (the forbidden list);
\* approvals/index.ts holds no such list. Here: a path under /run/secrets.
FORBIDDEN_PATTERNS == <<
  [pattern |-> Str(<<"/", "r", "u", "n", "/", "s", "e", "c", "r", "e", "t", "s">>),
   reason |-> "Secret path read"]
>>

MatchesForbidden(command) ==
  \E k \in 1..Len(FORBIDDEN_PATTERNS) : Test(FORBIDDEN_PATTERNS[k].pattern, command)

ForbiddenCommands == {c \in Commands : MatchesForbidden(c)}

\* ExecuteContext: sessionId and chatId are optional. The first is what the
\* old signature (cwd given as a string) becomes.
Contexts == <<
  [cwd |-> "/workspace/42"],
  [cwd |-> "/workspace/42", sessionId |-> "s42", chatId |-> 42],
  [cwd |-> "/workspace/42", chatId |-> 0]
>>

(***************************************************************************)
(* run_command (tools/bash.ts): execute and executeCommand.               *)
(***************************************************************************)
\* executeCommand hands the command to the shell (spawn or execSync). via
\* names the caller, serial the pending record the command came from (0 when
\* it came from none).
executeCommand(done, command, cwd, via, serial) ==
  done \cup {[command |-> command, cwd |-> cwd, via |-> via, serial |-> serial]}

\* A call and what it returned. op: the function called. For execute:
\* command is its argument, dangerous, success and approval_required are the
\* classification and the result, stored counts its storePendingCommand
\* calls. For approve, deny and cancel: found is whether the id was present,
\* age is Date.now() - createdAt of the record returned. ran: whether the
\* call reached executeCommand.
Call(op, command, dangerous, success, approval, ran, stored, found, age) ==
  [op |-> op, command |-> command, dangerous |-> dangerous, success |-> success,
   approval_required |-> approval, ran |-> ran, stored |-> stored,
   found |-> found, age |-> age]

NoCall == Call("none", <<>>, FALSE, FALSE, FALSE, FALSE, 0, FALSE, 0)

\* execute without its check: every command goes to executeCommand.
executeUnchecked(st, command, context, t, rnd, ok) ==
  [store |-> st.store, timers |-> st.timers, shown |-> st.shown,
   executed |-> executeCommand(st.executed, command, context.cwd, "execute", 0),
   serial |-> st.serial,
   result |-> Call("execute", command, Classification[command].dangerous, ok,
                   FALSE, TRUE, 0, FALSE, 0)]

\* execute(args, cwd) at time t. st holds the state the call reads; the
\* result holds the state it leaves and the value it returns. ok: whether
\* the shell reports success, should the command run.
execute(st, command, context, t, rnd, ok) ==
  LET workDir == context.cwd
      sessionId == IF "sessionId" \in DOMAIN context THEN context.sessionId ELSE "default"
      chatId == IF "chatId" \in DOMAIN context THEN context.chatId ELSE 0
      check == Classification[command]
      put == storePendingCommand(st.store, st.timers, sessionId, chatId, command,
                                 workDir, check.reason, t, rnd, st.serial)
  IN IF check.dangerous
     THEN [store |-> put.store,
           timers |-> put.timers,
           shown |-> IF st.callback /\ chatId # 0
                     THEN st.shown \cup {[chatId |-> chatId, commandId |-> put.id,
                                          command |-> command, reason |-> check.reason]}
                     ELSE st.shown,
           executed |-> st.executed,
           serial |-> st.serial + 1,
           result |-> Call("execute", command, TRUE, FALSE, TRUE, FALSE, 1, FALSE, 0)]
     ELSE [store |-> st.store,
           timers |-> st.timers,
           shown |-> st.shown,
           executed |-> executeCommand(st.executed, command, workDir, "execute", 0),
           serial |-> st.serial,
           result |-> Call("execute", command, FALSE, ok, FALSE, TRUE, 0, FALSE, 0)]

(***************************************************************************)
(* The approval subsystem: its initial state and its steps.               *)
(***************************************************************************)
ApprovalInit ==
  /\ pendingCommands = EmptyMap
  /\ timers = {}
  /\ showApprovalCallback = FALSE
  /\ shown = {}
  /\ executed = {}
  /\ consumeLog = {}
  /\ lastCall = NoCall
  /\ nextSerial = 1

\* setApprovalCallback(callback)
SetApprovalCallback ==
  /\ ~showApprovalCallback
  /\ showApprovalCallback' = TRUE
  /\ UNCHANGED <<fileVars, classifyVars, pureVars, sendVars, userVars, now, pendingCommands, timers,
                 shown, executed, consumeLog,
                 lastCall, nextSerial>>

\* The values Math.random().toString(36).slice(2, 8) can take in a call at
\* time t, up to renaming: one of the suffixes of the ids already given at t
\* (whose timers are all pending still), or one not used at t.
Suffixes(t) ==
  LET used == {tm.id[2] : tm \in {x \in timers : x.id[1] = t /\ ~x.fired}}
  IN used \cup {Cardinality(used) + 1}

\* One call of run_command's execute by the tool registry.
RunCommand ==
  \E command \in Commands, c \in 1..Len(Contexts), rnd \in Suffixes(now), ok \in BOOLEAN :
    LET st == [store |-> pendingCommands, timers |-> timers,
               callback |-> showApprovalCallback, shown |-> shown,
               executed |-> executed, serial |-> nextSerial]
        r == execute(st, command, Contexts[c], now, rnd, ok)
    IN /\ nextSerial <= MaxStores
       /\ pendingCommands' = r.store
       /\ timers' = r.timers
       /\ shown' = r.shown
       /\ executed' = r.executed
       /\ nextSerial' = r.serial
       /\ lastCall' = r.result
       /\ UNCHANGED <<fileVars, classifyVars, pureVars, sendVars, userVars, now, showApprovalCallback,
                      consumeLog>>

\* The setTimeout callback of one store call runs: not before it is due, and
\* as much later as the event loop makes it.
EvictionTimer ==
  \E tm \in timers :
    /\ ~tm.fired
    /\ now >= tm.due
    /\ pendingCommands' = evictionCallback(pendingCommands, tm.id)
    /\ timers' = (timers \ {tm}) \cup {[tm EXCEPT !.fired = TRUE]}
    /\ UNCHANGED <<fileVars, classifyVars, pureVars, sendVars, userVars, now, showApprovalCallback,
                   shown, executed, consumeLog,
                   lastCall, nextSerial>>

\* The ids the approve and deny buttons carry: those storePendingCommand gave.
IssuedIds == {tm.id : tm \in timers}

\* The log after consumePendingCommand returned cmd: a record returned is
\* logged by its serial, n counting the returns of that record.
LogConsume(cmd) ==
  IF cmd = {} THEN consumeLog
  ELSE LET rec == CHOOSE r \in cmd : TRUE
       IN consumeLog \cup
            {[serial |-> rec.serial,
              n |-> 1 + Cardinality({c \in consumeLog : c.serial = rec.serial})]}

ConsumeCall(op, cmd) ==
  IF cmd = {} THEN Call(op, <<>>, FALSE, FALSE, FALSE, FALSE, 0, FALSE, 0)
  ELSE LET rec == CHOOSE r \in cmd : TRUE
       IN Call(op, <<>>, FALSE, FALSE, FALSE, op = "approve", 0, TRUE,
               now - rec.createdAt)

\* The approve handler: it consumes the record and, given one, hands the
\* command to executeCommand.
OnApprove ==
  \E id \in IssuedIds :
    LET r == consumePendingCommand(pendingCommands, id)
    IN /\ pendingCommands' = r.store
       /\ consumeLog' = LogConsume(r.cmd)
       /\ lastCall' = ConsumeCall("approve", r.cmd)
       /\ executed' = IF r.cmd = {} THEN executed
                      ELSE LET rec == CHOOSE x \in r.cmd : TRUE
                           IN executeCommand(executed, rec.command, rec.cwd, "approve", rec.serial)
       /\ UNCHANGED <<fileVars, classifyVars, pureVars, sendVars, userVars, now, timers,
                      showApprovalCallback, shown, nextSerial>>

\* The deny handler: it consumes the record and runs nothing.
OnDeny ==
  \E id \in IssuedIds :
    LET r == consumePendingCommand(pendingCommands, id)
    IN /\ pendingCommands' = r.store
       /\ consumeLog' = LogConsume(r.cmd)
       /\ lastCall' = ConsumeCall("deny", r.cmd)
       /\ UNCHANGED <<fileVars, classifyVars, pureVars, sendVars, userVars, now, timers,
                      showApprovalCallback, shown, executed, nextSerial>>

\* One call of cancelPendingCommand(id).
CancelPending ==
  \E id \in IssuedIds :
    LET r == cancelPendingCommand(pendingCommands, id)
    IN /\ pendingCommands' = r.store
       /\ lastCall' = Call("cancel", <<>>, FALSE, FALSE, FALSE, FALSE, 0, r.ret, 0)
       /\ UNCHANGED <<fileVars, classifyVars, pureVars, sendVars, userVars, now, timers,
                      showApprovalCallback, shown, executed, consumeLog,
                      nextSerial>>

\* Time passes.
ApprovalTick ==
  /\ now < StartTime + MaxTicks * TtlTick
  /\ now' = now + TtlTick
  /\ UNCHANGED <<fileVars, classifyVars, pureVars, approvalVars, userVars, sendVars>>

ApprovalNext ==
  \/ SetApprovalCallback
  \/ RunCommand
  \/ EvictionTimer
  \/ OnApprove
  \/ OnDeny
  \/ CancelPending
  \/ ApprovalTick

(***************************************************************************)
(* rate-limiter.ts: the concurrent users limiter and the per-user lock;    *)
(* bot/src/index.ts: the main message handler.                             *)
(***************************************************************************)
\* Bounds: the runs of the text handler and the capacities
\* MAX_CONCURRENT_USERS may set.
MaxHandlers == 3
MaxCapacity == 1

\* CONFIG.users.maxConcurrent
CONFIG_users_maxConcurrent == 10

\* The user ids messages come from.
Users == {1, 2}

setMaxConcurrentUsers(max) == max

\* A limiter that declines nobody.
canAcceptAll(active, maxUsers, userId) ==
  TRUE

canAcceptUser(active, maxUsers, userId) ==
  IF userId \in active THEN TRUE ELSE Cardinality(active) < maxUsers

markUserActive(active, userId) == active \cup {userId}

markUserInactive(active, userId) == active \ {userId}

\* A lock that is one for all users: existing is whatever promise the map holds.
withUserLockEnterGlobal(locks, userId, myLock) ==
  [existing |-> {locks[u] : u \in DOMAIN locks},
   locks |-> MapSet(locks, userId, myLock)]

\* withUserLock up to its first await: existing is the promise found in the
\* map (none: {}), and the caller's own promise myLock takes its place.
withUserLockEnterKeepsLock(locks, userId, myLock) ==
  [existing |-> IF userId \in DOMAIN locks THEN {locks[userId]} ELSE {},
   locks |-> IF userId \in DOMAIN locks THEN locks ELSE MapSet(locks, userId, myLock)]

withUserLockEnter(locks, userId, myLock) ==
  [existing |-> IF userId \in DOMAIN locks THEN {locks[userId]} ELSE {},
   locks |-> MapSet(locks, userId, myLock)]

\* if (existing) await existing
awaitsNothing(existing) == FALSE

awaitsExisting(existing) == existing # {}

\* An exit that leaves the promise unresolved.
withUserLockExitUnresolved(locks, resolved, userId, myLock) ==
  [resolved |-> resolved,
   locks |-> IF userId \in DOMAIN locks /\ locks[userId] = myLock
             THEN MapDelete(locks, userId) ELSE locks]

\* The finally block of withUserLock: resolve(), and the entry of the map goes
\* if it is still the caller's.
withUserLockExit(locks, resolved, userId, myLock) ==
  [resolved |-> resolved \cup {myLock},
   locks |-> IF userId \in DOMAIN locks /\ locks[userId] = myLock
             THEN MapDelete(locks, userId) ELSE locks]

\* The texts of the messages, and what detectPromptInjection says of them.
TextHello == <<"h", "e", "l", "l", "o">>
TextJailbreak == <<"J", "a", "i", "l", "b", "r", "e", "a", "k", "!">>
Texts == {TextHello, TextJailbreak}

\* The patterns of PROMPT_INJECTION_PATTERNS written in ASCII; the first one,
\* in Cyrillic letters, matches no text of Texts and is left out.
PROMPT_INJECTION_PATTERNS == <<
  \* (line 62): /forget\s+(all\s+)?(instructions|rules|prompt)/i
  Cat(<<Cls({"F", "f"}), Cls({"O", "o"}), Cls({"R", "r"}), Cls({"G", "g"}),
  Cls({"E", "e"}), Cls({"T", "t"}), Plus(Space), Opt(Cat(<<Cls({"A", "a"}),
  Cls({"L", "l"}), Cls({"L", "l"}), Plus(Space)>>)), Alt(<<Cat(<<Cls({"I",
  "i"}), Cls({"N", "n"}), Cls({"S", "s"}), Cls({"T", "t"}), Cls({"R", "r"}),
  Cls({"U", "u"}), Cls({"C", "c"}), Cls({"T", "t"}), Cls({"I", "i"}),
  Cls({"O", "o"}), Cls({"N", "n"}), Cls({"S", "s"})>>), Cat(<<Cls({"R",
  "r"}), Cls({"U", "u"}), Cls({"L", "l"}), Cls({"E", "e"}), Cls({"S",
  "s"})>>), Cat(<<Cls({"P", "p"}), Cls({"R", "r"}), Cls({"O", "o"}),
  Cls({"M", "m"}), Cls({"P", "p"}), Cls({"T", "t"})>>)>>)>>),
  \* (line 63): /ignore\s+(previous|all|your)\s+(instructions|rules|prompt)/i
  Cat(<<Cls({"I", "i"}), Cls({"G", "g"}), Cls({"N", "n"}), Cls({"O", "o"}),
  Cls({"R", "r"}), Cls({"E", "e"}), Plus(Space), Alt(<<Cat(<<Cls({"P", "p"}),
  Cls({"R", "r"}), Cls({"E", "e"}), Cls({"V", "v"}), Cls({"I", "i"}),
  Cls({"O", "o"}), Cls({"U", "u"}), Cls({"S", "s"})>>), Cat(<<Cls({"A",
  "a"}), Cls({"L", "l"}), Cls({"L", "l"})>>), Cat(<<Cls({"Y", "y"}),
  Cls({"O", "o"}), Cls({"U", "u"}), Cls({"R", "r"})>>)>>), Plus(Space),
  Alt(<<Cat(<<Cls({"I", "i"}), Cls({"N", "n"}), Cls({"S", "s"}), Cls({"T",
  "t"}), Cls({"R", "r"}), Cls({"U", "u"}), Cls({"C", "c"}), Cls({"T", "t"}),
  Cls({"I", "i"}), Cls({"O", "o"}), Cls({"N", "n"}), Cls({"S", "s"})>>),
  Cat(<<Cls({"R", "r"}), Cls({"U", "u"}), Cls({"L", "l"}), Cls({"E", "e"}),
  Cls({"S", "s"})>>), Cat(<<Cls({"P", "p"}), Cls({"R", "r"}), Cls({"O",
  "o"}), Cls({"M", "m"}), Cls({"P", "p"}), Cls({"T", "t"})>>)>>)>>),
  \* (line 64): /\[system\]/i
  Cat(<<Lit("["), Cls({"S", "s"}), Cls({"Y", "y"}), Cls({"S", "s"}),
  Cls({"T", "t"}), Cls({"E", "e"}), Cls({"M", "m"}), Lit("]")>>),
  \* (line 64): /\[admin\]/i
  Cat(<<Lit("["), Cls({"A", "a"}), Cls({"D", "d"}), Cls({"M", "m"}),
  Cls({"I", "i"}), Cls({"N", "n"}), Lit("]")>>),
  \* (line 64): /\[developer\]/i
  Cat(<<Lit("["), Cls({"D", "d"}), Cls({"E", "e"}), Cls({"V", "v"}),
  Cls({"E", "e"}), Cls({"L", "l"}), Cls({"O", "o"}), Cls({"P", "p"}),
  Cls({"E", "e"}), Cls({"R", "r"}), Lit("]")>>),
  \* (line 65): /developer\s+mode/i
  Cat(<<Cls({"D", "d"}), Cls({"E", "e"}), Cls({"V", "v"}), Cls({"E", "e"}),
  Cls({"L", "l"}), Cls({"O", "o"}), Cls({"P", "p"}), Cls({"E", "e"}),
  Cls({"R", "r"}), Plus(Space), Cls({"M", "m"}), Cls({"O", "o"}), Cls({"D",
  "d"}), Cls({"E", "e"})>>),
  \* (line 65): /DAN\s+mode/i
  Cat(<<Cls({"D", "d"}), Cls({"A", "a"}), Cls({"N", "n"}), Plus(Space),
  Cls({"M", "m"}), Cls({"O", "o"}), Cls({"D", "d"}), Cls({"E", "e"})>>),
  \* (line 65): /jailbreak/i
  Cat(<<Cls({"J", "j"}), Cls({"A", "a"}), Cls({"I", "i"}), Cls({"L", "l"}),
  Cls({"B", "b"}), Cls({"R", "r"}), Cls({"E", "e"}), Cls({"A", "a"}),
  Cls({"K", "k"})>>)
>>

detectPromptInjection(text) ==
  \E k \in 1..Len(PROMPT_INJECTION_PATTERNS) : Test(PROMPT_INJECTION_PATTERNS[k], text)

Injection == [text \in Texts |-> detectPromptInjection(text)]

\* One run of the text handler. text is the message and accepted what
\* canAcceptUser answered for it; pc is the await the run stands at; existing
\* is the promise withUserLock found in the map; outcome is how the run went.
Handler(userId, text, accepted, pc, existing, outcome) ==
  [userId |-> userId, text |-> text, accepted |-> accepted, pc |-> pc,
   existing |-> existing, outcome |-> outcome]

SetHandler(h, pc, existing, outcome) ==
  [handlers EXCEPT ![h] = Handler(handlers[h].userId, handlers[h].text, handlers[h].accepted,
                                  pc, existing, outcome)]

\* A handler that takes every accepted message to the model.
firstAwaitUnscreened(accepted, injected) ==
  IF ~accepted THEN "busy" ELSE "react"

\* Where the handler stands at its first await: the "server busy" reply of a
\* declined turn, the reply to a prompt injection, or the eyes reaction.
firstAwait(accepted, injected) ==
  IF ~accepted THEN "busy"
  ELSE IF injected THEN "injection"
  ELSE "react"

AtPc(pc) == {h \in 1..Len(handlers) : handlers[h].pc = pc}

UsersInit ==
  /\ maxConcurrentUsers = CONFIG_users_maxConcurrent
  /\ activeUsers = {}
  /\ userLocks = EmptyMap
  /\ resolvedLocks = {}
  /\ handlers = <<>>
  /\ lockCalls = <<>>

\* index.ts at start-up: setMaxConcurrentUsers(MAX_CONCURRENT), the value of
\* the environment variable MAX_CONCURRENT_USERS.
SetMaxConcurrentUsers ==
  \E max \in 1..MaxCapacity :
    /\ handlers = <<>>
    /\ maxConcurrentUsers = CONFIG_users_maxConcurrent
    /\ maxConcurrentUsers' = setMaxConcurrentUsers(max)
    /\ UNCHANGED <<fileVars, classifyVars, pureVars, now, approvalVars, sendVars, activeUsers,
                   userLocks, resolvedLocks, handlers,
                   lockCalls>>

\* The user ids a message can come from: those seen so far and, user ids being
\* interchangeable, the next one.
Senders == {u \in Users : u <= Cardinality({handlers[h].userId : h \in 1..Len(handlers)}) + 1}

\* A text message arrives that the bot responds to (it is not away, shouldRespond
\* says yes and the message is not ignored at random; otherwise the handler
\* returns and touches nothing): the handler runs to its first await.
TextArrives ==
  \E userId \in Senders, text \in Texts :
    /\ Len(handlers) < MaxHandlers
    /\ LET accepted == canAcceptUser(activeUsers, maxConcurrentUsers, userId) IN
         handlers' = Append(handlers,
           Handler(userId, text, accepted, firstAwait(accepted, Injection[text]), {}, "none"))
    /\ UNCHANGED <<fileVars, classifyVars, pureVars, now, approvalVars, sendVars, maxConcurrentUsers,
                   activeUsers, userLocks,
                   resolvedLocks, lockCalls>>

\* The reaction and the "server busy" reply are sent; the handler returns.
BusyReplied ==
  \E h \in AtPc("busy") :
    /\ handlers' = SetHandler(h, "done", {}, "busy")
    /\ UNCHANGED <<fileVars, classifyVars, pureVars, now, approvalVars, sendVars, maxConcurrentUsers,
                   activeUsers, userLocks,
                   resolvedLocks, lockCalls>>

\* The reaction and the reply to a prompt injection are sent; the handler
\* returns.
InjectionReplied ==
  \E h \in AtPc("injection") :
    /\ handlers' = SetHandler(h, "done", {}, "injection")
    /\ UNCHANGED <<fileVars, classifyVars, pureVars, now, approvalVars, sendVars, maxConcurrentUsers,
                   activeUsers, userLocks,
                   resolvedLocks, lockCalls>>

\* The await of the eyes reaction returns: markUserActive, then withUserLock
\* up to its await of the promise found, or, none found, into fn up to its
\* first await.
Reacted ==
  \E h \in AtPc("react") :
    LET userId == handlers[h].userId
        e == withUserLockEnter(userLocks, userId, h)
    IN /\ activeUsers' = markUserActive(activeUsers, userId)
       /\ userLocks' = e.locks
       /\ lockCalls' = Append(lockCalls, h)
       /\ handlers' = SetHandler(h, IF awaitsExisting(e.existing) THEN "waiting" ELSE "fn",
                                 e.existing, "none")
       /\ UNCHANGED <<fileVars, classifyVars, pureVars, now, approvalVars, sendVars, maxConcurrentUsers,
                      resolvedLocks>>

\* await existing returns: fn starts and runs to its first await.
LockAcquired ==
  \E h \in AtPc("waiting") :
    /\ handlers[h].existing \subseteq resolvedLocks
    /\ handlers' = SetHandler(h, "fn", handlers[h].existing, "none")
    /\ UNCHANGED <<fileVars, classifyVars, pureVars, now, approvalVars, sendVars, maxConcurrentUsers,
                   activeUsers, userLocks,
                   resolvedLocks, lockCalls>>

\* In fn, callGateway returns (ok) or throws: the answer, or the error
\* message, is on its way through safeSend.
GatewayReturns ==
  \E h \in AtPc("fn"), ok \in BOOLEAN :
    /\ handlers' = SetHandler(h, "reply", handlers[h].existing,
                              IF ok THEN "answered" ELSE "error")
    /\ UNCHANGED <<fileVars, classifyVars, pureVars, now, approvalVars, sendVars, maxConcurrentUsers,
                   activeUsers, userLocks,
                   resolvedLocks, lockCalls>>

\* The sends of fn are over: its finally block runs markUserInactive and fn
\* settles.
FnSettles ==
  \E h \in AtPc("reply") :
    /\ activeUsers' = markUserInactive(activeUsers, handlers[h].userId)
    /\ handlers' = SetHandler(h, "settled", handlers[h].existing, handlers[h].outcome)
    /\ UNCHANGED <<fileVars, classifyVars, pureVars, now, approvalVars, sendVars, maxConcurrentUsers,
                   userLocks, resolvedLocks,
                   lockCalls>>

\* await fn() returns in withUserLock: its finally block.
LockReleased ==
  \E h \in AtPc("settled") :
    LET x == withUserLockExit(userLocks, resolvedLocks, handlers[h].userId, h)
    IN /\ resolvedLocks' = x.resolved
       /\ userLocks' = x.locks
       /\ handlers' = SetHandler(h, "done", handlers[h].existing, handlers[h].outcome)
       /\ UNCHANGED <<fileVars, classifyVars, pureVars, now, approvalVars, sendVars, maxConcurrentUsers,
                      activeUsers, lockCalls>>

UsersNext ==
  \/ SetMaxConcurrentUsers
  \/ TextArrives
  \/ BusyReplied
  \/ InjectionReplied
  \/ Reacted
  \/ LockAcquired
  \/ GatewayReturns
  \/ FnSettles
  \/ LockReleased

(***************************************************************************)
(* rate-limiter.ts: safeSend.                                              *)
(***************************************************************************)
\* Bounds: the calls of safeSend; how long a send function runs, how late the
\* timer of an interval wait fires, and the time between two calls when no
\* call is under way, in ms.
MaxSends == 2
\* Bound: the 429 answers of Telegram.
Max429 == 3
FnTime == 50
TimerLate == 7
IdleGap == 3000

\* CONFIG.rateLimit
globalMinInterval == 200
groupMinInterval == 5000
maxRetries == 3
retryBuffer == 5

\* A group chat and a private chat.
ChatIds == {0 - 1001, 42}

\* The retry_after of a 429 answer, in seconds; 0 stands for an answer
\* without it as well.
RetryAfters == {0, 1}

\* A call of safeSend: pc is the await it stands at, myTurn the promise it
\* took from sendMutex, attempt the loop counter, due the time its timer is
\* set for, result what it returned.
SendCall(chatId, pc, myTurn, attempt, due, result) ==
  [chatId |-> chatId, pc |-> pc, myTurn |-> myTurn, attempt |-> attempt, due |-> due,
   result |-> result]

\* The state safeSend works on, and the call at work.
SendState(gls, lgm, log, call) ==
  [globalLastSend |-> gls, lastGroupMessage |-> lgm, sendLog |-> log, call |-> call]

\* fn() is called at time t. The entry of the log is filled in when fn()
\* settles: the time, the outcome and the retry_after of a 429.
invoke(gls, lgm, log, c, i, t, attempt) ==
  SendState(gls, lgm,
            Append(log, [call |-> i, chatId |-> c.chatId, attempt |-> attempt, at |-> t,
                         result |-> "pending", ended |-> 0, retry_after |-> {}]),
            SendCall(c.chatId, "fn", c.myTurn, attempt, 0, "none"))

\* globalLastSend = Date.now() and the first turn of the loop.
firstAttempt(gls, lgm, log, c, i, t) == invoke(t, lgm, log, c, i, t, 1)

\* After the group wait: lastGroupMessage.set(chatId, Date.now()).
afterGroupWait(gls, lgm, log, c, i, t) ==
  firstAttempt(gls, MapSet(lgm, c.chatId, t), log, c, i, t)

groupWait(lastGroup, t) == groupMinInterval - (t - lastGroup)

\* if (chatId < 0) { ... }
groupPart(gls, lgm, log, c, i, t) ==
  IF c.chatId < 0
    THEN LET lastGroup == IF c.chatId \in DOMAIN lgm THEN lgm[c.chatId] ELSE 0
             wait == groupWait(lastGroup, t)
         IN IF wait > 0
              THEN SendState(gls, lgm, log,
                             SendCall(c.chatId, "groupWait", c.myTurn, 0, t + wait, "none"))
              ELSE afterGroupWait(gls, lgm, log, c, i, t)
    ELSE firstAttempt(gls, lgm, log, c, i, t)

globalWaitNone(gls, t) == 0

globalWait(gls, t) == globalMinInterval - (t - gls)

\* The try block from its start.
enter(gls, lgm, log, c, i, t) ==
  LET wait == globalWait(gls, t)
  IN IF wait > 0
       THEN SendState(gls, lgm, log,
                      SendCall(c.chatId, "globalWait", c.myTurn, 0, t + wait, "none"))
       ELSE groupPart(gls, lgm, log, c, i, t)

\* await myTurn
turnAlways(myTurn, done) == TRUE

turnGranted(myTurn, done) == myTurn \in done

\* The retry delay without the buffer.
retryAfterNoBuffer(retry_after) == IF retry_after = 0 THEN 30 ELSE retry_after

\* (e.response?.parameters?.retry_after || 30) + CONFIG.rateLimit.retryBuffer
retryAfter(retry_after) == (IF retry_after = 0 THEN 30 ELSE retry_after) + retryBuffer

SendInit ==
  /\ globalLastSend = 0
  /\ lastGroupMessage = EmptyMap
  /\ sendMutex = 0
  /\ released = {0}
  /\ sends = <<>>
  /\ sendLog = <<>>
  /\ directLog = <<>>

SendsAt(pc) == {i \in 1..Len(sends) : sends[i].pc = pc}

\* The state after a step of call i that leaves it as st says.
SendStep(i, st) ==
  /\ globalLastSend' = st.globalLastSend
  /\ lastGroupMessage' = st.lastGroupMessage
  /\ sendLog' = st.sendLog
  /\ sends' = [sends EXCEPT ![i] = st.call]

\* A return that leaves the queue held: no release().
ReturnHolding(i, result) ==
  /\ sends' = [sends EXCEPT ![i] = SendCall(sends[i].chatId, "done", sends[i].myTurn,
                                            sends[i].attempt, 0, result)]
  /\ UNCHANGED released

\* The finally block: release().
Return(i, result) ==
  /\ sends' = [sends EXCEPT ![i] = SendCall(sends[i].chatId, "done", sends[i].myTurn,
                                            sends[i].attempt, 0, result)]
  /\ released' = released \cup {i}

\* safeSend(chatId, fn) is called: it takes its turn from sendMutex, puts its
\* own promise there and awaits its turn. With no call under way the call
\* comes gap ms after the last step.
SafeSendCalled ==
  \E chatId \in ChatIds, gap \in {0, IdleGap} :
    /\ Len(sends) < MaxSends
    /\ gap > 0 => SendsAt("done") = 1..Len(sends)
    /\ now' = now + gap
    /\ sends' = Append(sends, SendCall(chatId, "queued", sendMutex, 0, 0, "none"))
    /\ sendMutex' = Len(sends) + 1
    /\ UNCHANGED <<fileVars, classifyVars, pureVars, approvalVars, userVars, directLog, globalLastSend,
                   lastGroupMessage, released,
                   sendLog>>

\* await myTurn returns: the waits are computed and, none being due, fn is
\* called.
TurnGranted ==
  \E i \in SendsAt("queued") :
    /\ turnGranted(sends[i].myTurn, released)
    /\ SendStep(i, enter(globalLastSend, lastGroupMessage, sendLog, sends[i], i, now))
    /\ UNCHANGED <<fileVars, classifyVars, pureVars, now, approvalVars, userVars, directLog, sendMutex,
                   released>>

\* The timer of the global wait fires, at its time or late ms after.
GlobalWaitOver ==
  \E i \in SendsAt("globalWait"), late \in {0, TimerLate} :
    /\ now' = sends[i].due + late
    /\ SendStep(i, groupPart(globalLastSend, lastGroupMessage, sendLog, sends[i], i, now'))
    /\ UNCHANGED <<fileVars, classifyVars, pureVars, approvalVars, userVars, directLog, sendMutex, released>>

\* The timer of the group wait fires.
GroupWaitOver ==
  \E i \in SendsAt("groupWait"), late \in {0, TimerLate} :
    /\ now' = sends[i].due + late
    /\ SendStep(i, afterGroupWait(globalLastSend, lastGroupMessage, sendLog, sends[i], i, now'))
    /\ UNCHANGED <<fileVars, classifyVars, pureVars, approvalVars, userVars, directLog, sendMutex, released>>

SetResult(log, result, t, retry_after) ==
  [log EXCEPT ![Len(log)].result = result, ![Len(log)].ended = t,
              ![Len(log)].retry_after = retry_after]

\* fn() resolves after FnTime ms: safeSend returns its value.
FnResolves ==
  \E i \in SendsAt("fn") :
    /\ now' = now + FnTime
    /\ sendLog' = SetResult(sendLog, "ok", now', {})
    /\ Return(i, "sent")
    /\ UNCHANGED <<fileVars, classifyVars, pureVars, approvalVars, userVars, directLog, globalLastSend,
                   lastGroupMessage, sendMutex>>

\* An error that is not a 429 taken for one: the loop goes on.
FnFailsRetries ==
  \E i \in SendsAt("fn") :
    /\ now' = now + FnTime
    /\ sendLog' = SetResult(sendLog, "error", now', {})
    /\ IF sends[i].attempt < maxRetries
         THEN /\ sends' = [sends EXCEPT ![i] =
                             SendCall(sends[i].chatId, "retrySleep", sends[i].myTurn,
                                      sends[i].attempt, now' + retryAfter(0) * 1000, "none")]
              /\ UNCHANGED released
         ELSE Return(i, "null")
    /\ UNCHANGED <<fileVars, classifyVars, pureVars, approvalVars, userVars, directLog, globalLastSend,
                   lastGroupMessage, sendMutex>>

\* fn() rejects with an error that is not a 429: safeSend returns null.
FnFails ==
  \E i \in SendsAt("fn") :
    /\ now' = now + FnTime
    /\ sendLog' = SetResult(sendLog, "error", now', {})
    /\ Return(i, "null")
    /\ UNCHANGED <<fileVars, classifyVars, pureVars, approvalVars, userVars, directLog, globalLastSend,
                   lastGroupMessage, sendMutex>>

\* fn() rejects with a 429: a sleep of retryAfter seconds before the next
\* attempt, or, after the last attempt, null.
FnRateLimited ==
  \E i \in SendsAt("fn"), retry_after \in RetryAfters :
    /\ Cardinality({k \in 1..Len(sendLog) : sendLog[k].result = "429"}) < Max429
    /\ now' = now + FnTime
    /\ sendLog' = SetResult(sendLog, "429", now', {retry_after})
    /\ IF sends[i].attempt < maxRetries
         THEN /\ sends' = [sends EXCEPT ![i] =
                             SendCall(sends[i].chatId, "retrySleep", sends[i].myTurn,
                                      sends[i].attempt, now' + retryAfter(retry_after) * 1000,
                                      "none")]
              /\ UNCHANGED released
         ELSE Return(i, "null")
    /\ UNCHANGED <<fileVars, classifyVars, pureVars, approvalVars, userVars, directLog, globalLastSend,
                   lastGroupMessage, sendMutex>>

\* The timer of the retry sleep fires, at its time: globalLastSend = Date.now()
\* and the next turn of the loop.
RetrySleepOver ==
  \E i \in SendsAt("retrySleep") :
    /\ now' = sends[i].due
    /\ SendStep(i, invoke(now', lastGroupMessage, sendLog, sends[i], i, now',
                          sends[i].attempt + 1))
    /\ UNCHANGED <<fileVars, classifyVars, pureVars, approvalVars, userVars, directLog, sendMutex, released>>

SendNext ==
  \/ SafeSendCalled
  \/ TurnGranted
  \/ GlobalWaitOver
  \/ GroupWaitOver
  \/ FnResolves
  \/ FnFails
  \/ FnRateLimited
  \/ RetrySleepOver

(***************************************************************************)
(* bot/src/index.ts: the messages sent to Telegram without safeSend.       *)
(***************************************************************************)
\* Bound: the messages sent without safeSend.
MaxDirect == 1

\* The commands that answer with ctx.reply; for /afk, the answer to a user
\* who is not the admin.
BotCommands == {"start", "clear", "status", "afk"}

\* ctx.reply or bot.telegram.sendMessage called at time t.
direct(log, chatId, via, t) == Append(log, [chatId |-> chatId, via |-> via, at |-> t])

\* A command handler runs: await ctx.reply(...).
CommandReplied ==
  \E command \in BotCommands, chatId \in ChatIds :
    /\ Len(directLog) < MaxDirect
    /\ directLog' = direct(directLog, chatId, command, now)
    /\ UNCHANGED <<fileVars, classifyVars, pureVars, now, approvalVars, userVars, globalLastSend,
                   lastGroupMessage,
                   sendMutex, released, sends, sendLog>>

\* POST /send of the scheduler: await bot.telegram.sendMessage(chat_id, html).
SchedulerSend ==
  \E chat_id \in ChatIds :
    /\ Len(directLog) < MaxDirect
    /\ directLog' = direct(directLog, chat_id, "send", now)
    /\ UNCHANGED <<fileVars, classifyVars, pureVars, now, approvalVars, userVars, globalLastSend,
                   lastGroupMessage,
                   sendMutex, released, sends, sendLog>>

\* The outbound messages of the process: the safeSend calls whose send
\* function succeeds at once, the command replies and the scheduler's sends.
OutboundNext ==
  \/ SafeSendCalled
  \/ TurnGranted
  \/ GlobalWaitOver
  \/ GroupWaitOver
  \/ FnResolves
  \/ CommandReplied
  \/ SchedulerSend

(***************************************************************************)
(* tools/files.ts: read_file and write_file with their path checks, over a  *)
(* file system with directories, files and symbolic links.                 *)
(* A name and a path string are sequences of characters; a path is a       *)
(* sequence of names, from the root.                                      *)
(***************************************************************************)
\* String.prototype.toLowerCase, on the characters of the model.
LowerOf ==
  ("A" :> "a") @@ ("B" :> "b") @@ ("C" :> "c") @@ ("D" :> "d") @@ ("E" :> "e") @@ 
  ("F" :> "f") @@ ("G" :> "g") @@ ("H" :> "h") @@ ("I" :> "i") @@ ("J" :> "j") @@ 
  ("K" :> "k") @@ ("L" :> "l") @@ ("M" :> "m") @@ ("N" :> "n") @@ ("O" :> "o") @@ 
  ("P" :> "p") @@ ("Q" :> "q") @@ ("R" :> "r") @@ ("S" :> "s") @@ ("T" :> "t") @@ 
  ("U" :> "u") @@ ("V" :> "v") @@ ("W" :> "w") @@ ("X" :> "x") @@ ("Y" :> "y") @@ 
  ("Z" :> "z")

toLowerCase(s) == [k \in 1..Len(s) |-> IF s[k] \in DOMAIN LowerOf THEN LowerOf[s[k]] ELSE s[k]]

\* String.prototype.startsWith and includes.
startsWith(s, prefix) == Len(prefix) <= Len(s) /\ SubSeq(s, 1, Len(prefix)) = prefix

includes(s, part) ==
  \E k \in 1..(Len(s) - Len(part) + 1) : SubSeq(s, k, k + Len(part) - 1) = part

\* Files that should NEVER be read
SENSITIVE_FILES == <<
  <<".", "e", "n", "v">>,  \* .env
  <<".", "e", "n", "v", ".", "l", "o", "c", "a", "l">>,  \* .env.local
  <<".", "e", "n", "v", ".", "p", "r", "o", "d", "u", "c", "t", "i", "o", "n">>,  \* .env.production
  <<".", "e", "n", "v", ".", "d", "e", "v", "e", "l", "o", "p", "m", "e", "n", "t">>,  \* .env.development
  <<".", "e", "n", "v", ".", "s", "t", "a", "g", "i", "n", "g">>,  \* .env.staging
  <<"c", "r", "e", "d", "e", "n", "t", "i", "a", "l", "s", ".", "j", "s", "o", "n">>,  \* credentials.json
  <<"c", "r", "e", "d", "e", "n", "t", "i", "a", "l", "s", ".", "y", "a", "m", "l">>,  \* credentials.yaml
  <<"s", "e", "c", "r", "e", "t", "s", ".", "j", "s", "o", "n">>,  \* secrets.json
  <<"s", "e", "c", "r", "e", "t", "s", ".", "y", "a", "m", "l">>,  \* secrets.yaml
  <<".", "s", "e", "c", "r", "e", "t", "s">>,  \* .secrets
  <<"s", "e", "r", "v", "i", "c", "e", "-", "a", "c", "c", "o", "u", "n", "t", ".", "j", "s", "o", "n">>,  \* service-account.json
  <<"s", "e", "r", "v", "i", "c", "e", "A", "c", "c", "o", "u", "n", "t", "K", "e", "y", ".", "j", "s", "o", "n">>,  \* serviceAccountKey.json
  <<".", "n", "p", "m", "r", "c">>,  \* .npmrc
  <<".", "p", "y", "p", "i", "r", "c">>,  \* .pypirc
  <<"i", "d", "_", "r", "s", "a">>,  \* id_rsa
  <<"i", "d", "_", "e", "d", "2", "5", "5", "1", "9">>,  \* id_ed25519
  <<"i", "d", "_", "e", "c", "d", "s", "a">>,  \* id_ecdsa
  <<"i", "d", "_", "d", "s", "a">>,  \* id_dsa
  <<".", "p", "e", "m">>,  \* .pem
  <<".", "k", "e", "y">>  \* .key
>>

SENSITIVE_PATTERNS == <<
  \* (line 36): /\.env(\.[a-z]+)?$/i
  Cat(<<Lit("."), Cls({"E", "e"}), Cls({"N", "n"}), Cls({"V", "v"}),
  Opt(Cat(<<Lit("."), Plus(Cls({"a", "b", "c", "d", "e", "f", "g", "h", "i",
  "j", "k", "l", "m", "n", "o", "p", "q", "r", "s", "t", "u", "v", "w", "x",
  "y", "z"}))>>)), Eol>>),
  \* (line 37): /credentials?\.(json|yaml|yml)$/i
  Cat(<<Cls({"C", "c"}), Cls({"R", "r"}), Cls({"E", "e"}), Cls({"D", "d"}),
  Cls({"E", "e"}), Cls({"N", "n"}), Cls({"T", "t"}), Cls({"I", "i"}),
  Cls({"A", "a"}), Cls({"L", "l"}), Opt(Cls({"S", "s"})), Lit("."),
  Alt(<<Cat(<<Cls({"J", "j"}), Cls({"S", "s"}), Cls({"O", "o"}), Cls({"N",
  "n"})>>), Cat(<<Cls({"Y", "y"}), Cls({"A", "a"}), Cls({"M", "m"}),
  Cls({"L", "l"})>>), Cat(<<Cls({"Y", "y"}), Cls({"M", "m"}), Cls({"L",
  "l"})>>)>>), Eol>>),
  \* (line 38): /secrets?\.(json|yaml|yml)$/i
  Cat(<<Cls({"S", "s"}), Cls({"E", "e"}), Cls({"C", "c"}), Cls({"R", "r"}),
  Cls({"E", "e"}), Cls({"T", "t"}), Opt(Cls({"S", "s"})), Lit("."),
  Alt(<<Cat(<<Cls({"J", "j"}), Cls({"S", "s"}), Cls({"O", "o"}), Cls({"N",
  "n"})>>), Cat(<<Cls({"Y", "y"}), Cls({"A", "a"}), Cls({"M", "m"}),
  Cls({"L", "l"})>>), Cat(<<Cls({"Y", "y"}), Cls({"M", "m"}), Cls({"L",
  "l"})>>)>>), Eol>>),
  \* (line 39): /service.?account.*\.json$/i
  Cat(<<Cls({"S", "s"}), Cls({"E", "e"}), Cls({"R", "r"}), Cls({"V", "v"}),
  Cls({"I", "i"}), Cls({"C", "c"}), Cls({"E", "e"}), Opt(AnyChar), Cls({"A",
  "a"}), Cls({"C", "c"}), Cls({"C", "c"}), Cls({"O", "o"}), Cls({"U", "u"}),
  Cls({"N", "n"}), Cls({"T", "t"}), Star(AnyChar), Lit("."), Cls({"J", "j"}),
  Cls({"S", "s"}), Cls({"O", "o"}), Cls({"N", "n"}), Eol>>),
  \* (line 40): /private.?key/i
  Cat(<<Cls({"P", "p"}), Cls({"R", "r"}), Cls({"I", "i"}), Cls({"V", "v"}),
  Cls({"A", "a"}), Cls({"T", "t"}), Cls({"E", "e"}), Opt(AnyChar), Cls({"K",
  "k"}), Cls({"E", "e"}), Cls({"Y", "y"})>>),
  \* (line 41): /id_(rsa|dsa|ecdsa|ed25519)$/i
  Cat(<<Cls({"I", "i"}), Cls({"D", "d"}), Lit("_"), Alt(<<Cat(<<Cls({"R",
  "r"}), Cls({"S", "s"}), Cls({"A", "a"})>>), Cat(<<Cls({"D", "d"}),
  Cls({"S", "s"}), Cls({"A", "a"})>>), Cat(<<Cls({"E", "e"}), Cls({"C",
  "c"}), Cls({"D", "d"}), Cls({"S", "s"}), Cls({"A", "a"})>>),
  Cat(<<Cls({"E", "e"}), Cls({"D", "d"}), Str(<<"2", "5", "5", "1",
  "9">>)>>)>>), Eol>>),
  \* (line 42): /\.(pem|key|p12|pfx)$/i
  Cat(<<Lit("."), Alt(<<Cat(<<Cls({"P", "p"}), Cls({"E", "e"}), Cls({"M",
  "m"})>>), Cat(<<Cls({"K", "k"}), Cls({"E", "e"}), Cls({"Y", "y"})>>),
  Cat(<<Cls({"P", "p"}), Str(<<"1", "2">>)>>), Cat(<<Cls({"P", "p"}),
  Cls({"F", "f"}), Cls({"X", "x"})>>)>>), Eol>>)
>>

Slash == <<"/">>
Dot == <<".">>
DotDot == <<".", ".">>

\* The path string of a sequence of names: "/" before every name.
RECURSIVE PathString(_)
PathString(segs) ==
  IF segs = <<>> THEN <<>> ELSE Slash \o Head(segs) \o PathString(Tail(segs))

\* path.normalize on the names of an absolute path: "." is dropped and ".."
\* removes the name before it, without looking at the file system.
RECURSIVE normalize(_, _)
normalize(done, rest) ==
  IF rest = <<>> THEN done
  ELSE IF Head(rest) = Dot THEN normalize(done, Tail(rest))
  ELSE IF Head(rest) = DotDot
    THEN normalize(IF done = <<>> THEN <<>> ELSE SubSeq(done, 1, Len(done) - 1), Tail(rest))
  ELSE normalize(Append(done, Head(rest)), Tail(rest))

\* path.join(cwd, relative) and path.resolve(absolute).
join(cwd, segs) ==
  normalize(<<>>, cwd \o segs)

resolve(segs) ==
  normalize(<<>>, segs)

\* The string of a resolved path: the root is "/".
ResolvedString(segs) ==
  IF segs = <<>> THEN Slash ELSE PathString(segs)

\* path.basename: the last name of the path.
basename(segs) ==
  IF segs = <<>> THEN <<>> ELSE segs[Len(segs)]

\* path.dirname: the path without its last name.
dirname(segs) ==
  IF segs = <<>> THEN <<>> ELSE SubSeq(segs, 1, Len(segs) - 1)

\* An argument of the tools: the names of the path and whether it begins with "/".
Arg(absolute, segs) ==
  [absolute |-> absolute, segs |-> segs]

\* fullPath = args.path.startsWith('/') ? args.path : join(cwd, args.path)
fullPathOf(arg, cwd) ==
  IF arg.absolute THEN arg.segs ELSE join(cwd, arg.segs)

\* Check if file is sensitive: the name of the file, the patterns and the
\* .ssh directory, all on the path as given.
isSensitiveFile(filePath) ==
  LET name == toLowerCase(basename(filePath))
      pathLower == toLowerCase(PathString(filePath))
  IN \/ \E k \in 1..Len(SENSITIVE_FILES) : name = toLowerCase(SENSITIVE_FILES[k])
     \/ \E k \in 1..Len(SENSITIVE_PATTERNS) : Test(SENSITIVE_PATTERNS[k], pathLower)
     \/ includes(pathLower, <<"/", ".", "s", "s", "h", "/">>)
     \/ includes(pathLower, <<"\\", ".", "s", "s", "h", "\\">>)

(***************************************************************************)
(* The file system: a map from the canonical path of every node to its     *)
(* kind and, for a symbolic link, the absolute path it points to.  The     *)
(* root always exists.                                                     *)
(***************************************************************************)
MaxLinkDepth == 3

Node(kind, target) ==
  [kind |-> kind, target |-> target]

IsDir(files, path) ==
  path = <<>> \/ (path \in DOMAIN files /\ files[path].kind = "dir")

\* The canonical path of the names `rest` looked up from the canonical
\* directory `cur`, as the kernel walks it: every name must exist, a link is
\* followed, ".." is the parent of the directory reached.  The result is the
\* set holding the canonical path, or the empty set when the lookup fails.
RECURSIVE Walk(_, _, _, _)
Walk(files, cur, rest, fuel) ==
  IF rest = <<>> THEN {cur}
  ELSE IF ~IsDir(files, cur) THEN {}
  ELSE IF Head(rest) = Dot THEN Walk(files, cur, Tail(rest), fuel)
  ELSE IF Head(rest) = DotDot THEN Walk(files, dirname(cur), Tail(rest), fuel)
  ELSE LET next == Append(cur, Head(rest)) IN
    IF next \notin DOMAIN files THEN {}
    ELSE IF files[next].kind = "link"
      THEN IF fuel = 0 THEN {} ELSE Walk(files, <<>>, files[next].target \o Tail(rest), fuel - 1)
    ELSE Walk(files, next, Tail(rest), fuel)

\* fs.realpathSync: the canonical path, or a throw (the empty set).
realpathSync(files, path) ==
  Walk(files, <<>>, path, MaxLinkDepth)

\* fs.existsSync: the path can be followed to a node.
existsSync(files, path) ==
  realpathSync(files, path) # {}

\* fs.lstatSync(path).isSymbolicLink(): the last name is not followed.
isSymbolicLink(files, path) ==
  /\ path # <<>>
  /\ basename(path) \notin {Dot, DotDot}
  /\ \E parent \in realpathSync(files, dirname(path)) :
       /\ Append(parent, basename(path)) \in DOMAIN files
       /\ files[Append(parent, basename(path))].kind = "link"

\* fs.mkdirSync(dir, { recursive: true }): the directories that do not exist
\* are created where the walk arrives; the set holds the new file system, or
\* is empty when the call throws.
RECURSIVE mkdirSync(_, _, _, _)
mkdirSync(files, cur, rest, fuel) ==
  IF rest = <<>> THEN IF IsDir(files, cur) THEN {files} ELSE {}
  ELSE IF ~IsDir(files, cur) THEN {}
  ELSE IF Head(rest) = Dot THEN mkdirSync(files, cur, Tail(rest), fuel)
  ELSE IF Head(rest) = DotDot THEN mkdirSync(files, dirname(cur), Tail(rest), fuel)
  ELSE LET next == Append(cur, Head(rest)) IN
    IF next \notin DOMAIN files
      THEN mkdirSync(files @@ (next :> Node("dir", <<>>)), next, Tail(rest), fuel)
    ELSE IF files[next].kind = "link"
      THEN IF fuel = 0 THEN {} ELSE mkdirSync(files, <<>>, files[next].target \o Tail(rest), fuel - 1)
    ELSE mkdirSync(files, next, Tail(rest), fuel)

\* The canonical path of the file that fs.writeFileSync(path) creates or
\* truncates: the directory must exist, a link in the last position is
\* followed even when it points to nothing yet, a directory cannot be
\* written.  The empty set is a throw.
RECURSIVE writeTarget(_, _, _)
writeTarget(files, path, fuel) ==
  IF path = <<>> \/ basename(path) \in {Dot, DotDot} THEN {}
  ELSE LET parents == Walk(files, <<>>, dirname(path), MaxLinkDepth) IN
    IF parents = {} THEN {}
    ELSE LET parent == CHOOSE d \in parents : TRUE
             node == Append(parent, basename(path))
         IN IF ~IsDir(files, parent) THEN {}
            ELSE IF node \notin DOMAIN files THEN {node}
            ELSE IF files[node].kind = "file" THEN {node}
            ELSE IF files[node].kind = "link"
              THEN IF fuel = 0 THEN {} ELSE writeTarget(files, files[node].target, fuel - 1)
            ELSE {}

\* fs.writeFileSync(path, content): the file system afterwards.
writeFileSync(files, path) ==
  {[p \in DOMAIN files \cup {node} |-> IF p = node THEN Node("file", <<>>) ELSE files[p]] :
     node \in writeTarget(files, path, MaxLinkDepth)}

\* The locations a link must not lead to.
SensitivePaths ==
  <<<<"/", "e", "t", "c">>, <<"/", "r", "o", "o", "t">>, <<"/", "h", "o", "m", "e">>, <<"/", "p", "r", "o", "c">>, <<"/", "s", "y", "s">>, <<"/", "d", "e", "v">>, <<"/", "v", "a", "r">>>>

Escape(escape, reason) ==
  [escape |-> escape, reason |-> reason]

\* A check that never reports an escape.
isSymlinkEscapeNever(files, filePath, workspacePath) ==
  Escape(FALSE, "none")

\* Check if path is a symlink pointing outside workspace.  A path that does
\* not exist, and a workspace that cannot be resolved, give no escape.
isSymlinkEscape(files, filePath, workspacePath) ==
  IF ~existsSync(files, filePath) THEN Escape(FALSE, "none")
  ELSE IF realpathSync(files, workspacePath) = {} THEN Escape(FALSE, "none")
  ELSE LET realPath == ResolvedString(CHOOSE p \in realpathSync(files, filePath) : TRUE)
           realWorkspace == ResolvedString(CHOOSE p \in realpathSync(files, workspacePath) : TRUE)
       IN IF ~startsWith(realPath, realWorkspace \o Slash) /\ realPath # realWorkspace
            THEN Escape(TRUE, "Symlink points outside workspace")
          ELSE IF /\ isSymbolicLink(files, filePath)
                  /\ \E k \in 1..Len(SensitivePaths) : startsWith(realPath, SensitivePaths[k])
            THEN Escape(TRUE, "Symlink points to sensitive location")
          ELSE Escape(FALSE, "none")

\* The outcome of a tool: what it answers, the canonical paths whose content
\* it read or wrote, and the file system it leaves.
Outcome(result, touched, files) ==
  [result |-> result, touched |-> touched, files |-> files]

\* fs.readFileSync: the content of the file the path leads to; a directory throws.
readFileSync(files, path) ==
  {p \in realpathSync(files, path) : p \in DOMAIN files /\ files[p].kind = "file"}

\* read_file
executeRead(files, arg, cwd) ==
  LET fullPath == fullPathOf(arg, cwd) IN
  IF isSensitiveFile(fullPath) THEN Outcome("blocked", {}, files)
  ELSE IF isSymlinkEscape(files, fullPath, cwd).escape THEN Outcome("blocked", {}, files)
  ELSE IF ~existsSync(files, fullPath) THEN Outcome("not found", {}, files)
  ELSE IF readFileSync(files, fullPath) = {} THEN Outcome("error", {}, files)
  ELSE Outcome("success", readFileSync(files, fullPath), files)

\* write_file
executeWrite(files, arg, cwd) ==
  LET fullPath == fullPathOf(arg, cwd)
      resolvedPath == ResolvedString(resolve(fullPath))
      resolvedCwd == ResolvedString(resolve(cwd))
  IN
  IF ~startsWith(resolvedPath, resolvedCwd \o Slash) /\ resolvedPath # resolvedCwd
    THEN Outcome("blocked", {}, files)
  ELSE IF isSensitiveFile(fullPath) THEN Outcome("blocked", {}, files)
  ELSE IF isSymlinkEscape(files, fullPath, cwd).escape THEN Outcome("blocked", {}, files)
  ELSE LET dir == dirname(fullPath)
           made == IF existsSync(files, dir) THEN {files} ELSE mkdirSync(files, <<>>, dir, MaxLinkDepth)
       IN IF made = {} THEN Outcome("error", {}, files)
          ELSE LET files1 == CHOOSE f \in made : TRUE IN
            IF writeFileSync(files1, fullPath) = {} THEN Outcome("error", {}, files1)
            ELSE Outcome("success", writeTarget(files1, fullPath, MaxLinkDepth),
                         CHOOSE f \in writeFileSync(files1, fullPath) : TRUE)

\* fs.unlinkSync: the entry the path names is removed, a link in the last
\* position not being followed; a directory, or no entry, is a throw (the
\* empty set).
unlinkSync(files, path) ==
  IF path = <<>> \/ basename(path) \in {Dot, DotDot} THEN {}
  ELSE {Append(parent, basename(path)) : parent \in
          {d \in realpathSync(files, dirname(path)) :
             /\ Append(d, basename(path)) \in DOMAIN files
             /\ files[Append(d, basename(path))].kind # "dir"}}

\* delete_file
executeDelete(files, arg, cwd) ==
  LET fullPath == fullPathOf(arg, cwd)
      resolved == ResolvedString(resolve(fullPath))
      cwdResolved == ResolvedString(resolve(cwd))
  IN
  IF ~startsWith(resolved, cwdResolved) THEN Outcome("blocked", {}, files)
  ELSE IF ~existsSync(files, fullPath) THEN Outcome("not found", {}, files)
  ELSE IF unlinkSync(files, fullPath) = {} THEN Outcome("error", {}, files)
  ELSE Outcome("success", unlinkSync(files, fullPath),
               [p \in DOMAIN files \ unlinkSync(files, fullPath) |-> files[p]])

\* Directories that should not be listed
BLOCKED_DIRECTORIES ==
  <<<<"/", "e", "t", "c">>, <<"/", "r", "o", "o", "t">>, <<"/", ".", "s", "s", "h">>, <<"/", "p", "r", "o", "c">>, <<"/", "s", "y", "s">>, <<"/", "d", "e", "v">>, <<"/", "b", "o", "o", "t">>, <<"/", "v", "a", "r", "/", "l", "o", "g">>, <<"/", "v", "a", "r", "/", "r", "u", "n">>>>

\* A list_directory that refuses nothing.
executeListDirectoryUnchecked(files, arg, cwd) ==
  Outcome(IF existsSync(files, fullPathOf(arg, cwd)) THEN "success" ELSE "error",
          realpathSync(files, fullPathOf(arg, cwd)), files)

\* list_directory; an argument without names is args.path left out. ls runs
\* on the directory the path leads to.
executeListDirectory(files, arg, cwd) ==
  LET dir == IF arg.segs # <<>> \/ arg.absolute THEN fullPathOf(arg, cwd) ELSE cwd
      resolvedDir == toLowerCase(ResolvedString(resolve(dir)))
  IN
  IF \E k \in 1..Len(BLOCKED_DIRECTORIES) :
       \/ resolvedDir = BLOCKED_DIRECTORIES[k]
       \/ startsWith(resolvedDir, BLOCKED_DIRECTORIES[k] \o Slash)
    THEN Outcome("blocked", {}, files)
  ELSE IF includes(resolvedDir, <<"/", ".", "s", "s", "h">>) THEN Outcome("blocked", {}, files)
  ELSE Outcome(IF existsSync(files, dir) THEN "success" ELSE "error",
               realpathSync(files, dir), files)

(***************************************************************************)
(* The workspace of user 42 and what the agent does in it.                  *)
(***************************************************************************)
MaxLinks == 2
MaxFileCalls == 1

\* ctx.cwd of the tool calls.
Workspace == <<<<"w", "o", "r", "k", "s", "p", "a", "c", "e">>, <<"4", "2">>>>

Etc == <<<<"e", "t", "c">>>>

\* The container before the agent acts.
InitialFiles ==
  (<<<<"w", "o", "r", "k", "s", "p", "a", "c", "e">>>> :> Node("dir", <<>>)) @@
  (Workspace :> Node("dir", <<>>)) @@
  (Append(Workspace, <<".", "e", "n", "v">>) :> Node("file", <<>>)) @@
  (Append(Workspace, <<"a", ".", "t", "x", "t">>) :> Node("file", <<>>)) @@
  (Etc :> Node("dir", <<>>)) @@
  (Append(Etc, <<"p", "a", "s", "s", "w", "d">>) :> Node("file", <<>>)) @@
  (<<<<"w", "o", "r", "k", "s", "p", "a", "c", "e">>, <<"4", "3">>>> :> Node("dir", <<>>)) @@
  (<<<<"w", "o", "r", "k", "s", "p", "a", "c", "e">>, <<"4", "2", "1">>>> :> Node("dir", <<>>)) @@
  (<<<<"w", "o", "r", "k", "s", "p", "a", "c", "e">>, <<"4", "2", "1">>, <<"x", ".", "t", "x", "t">>>> :> Node("file", <<>>)) @@
  (<<<<"t", "m", "p">>>> :> Node("dir", <<>>)) @@
  (<<<<"h", "o", "m", "e">>>> :> Node("dir", <<>>))

\* The links the agent makes with ln -s in its workspace: name and target.
Links ==
  { <<<<"n", "o", "t", "e", "s", ".", "t", "x", "t">>, Append(Workspace, <<".", "e", "n", "v">>)>>,
    <<<<"p", "w">>, Append(Etc, <<"p", "a", "s", "s", "w", "d">>)>>,
    <<<<"o", "u", "t">>, Etc>>,
    <<<<"f", "r", "e", "s", "h">>, Append(Etc, <<"n", "e", "w", ".", "c", "o", "n", "f">>)>> }

\* The paths the agent passes to read_file and write_file.
Args ==
  { Arg(FALSE, <<<<"a", ".", "t", "x", "t">>>>),
    Arg(FALSE, <<<<".", "e", "n", "v">>>>),
    Arg(FALSE, <<<<"n", "o", "t", "e", "s", ".", "t", "x", "t">>>>),
    Arg(FALSE, <<<<"p", "w">>>>),
    Arg(FALSE, <<<<"f", "r", "e", "s", "h">>>>),
    Arg(FALSE, <<<<"o", "u", "t">>, <<"p", "a", "s", "s", "w", "d">>>>),
    Arg(FALSE, <<<<"o", "u", "t">>, <<"n", "e", "w", ".", "c", "o", "n", "f">>>>),
    Arg(FALSE, <<<<"s", "u", "b">>, <<"b", ".", "t", "x", "t">>>>),
    Arg(FALSE, <<DotDot, DotDot, <<"e", "t", "c">>, <<"p", "a", "s", "s", "w", "d">>>>),
    Arg(TRUE, <<<<"e", "t", "c">>, <<"p", "a", "s", "s", "w", "d">>>>),
    Arg(TRUE, <<<<"w", "o", "r", "k", "s", "p", "a", "c", "e">>, <<"4", "2">>, <<"o", "u", "t">>, DotDot, <<"x", ".", "t", "x", "t">>>>) }

\* The paths the agent passes to delete_file.
DeleteArgs ==
  { Arg(FALSE, <<<<"a", ".", "t", "x", "t">>>>),
    Arg(FALSE, <<<<"p", "w">>>>),
    Arg(FALSE, <<DotDot, <<"4", "2", "1">>, <<"x", ".", "t", "x", "t">>>>),
    Arg(TRUE, <<<<"w", "o", "r", "k", "s", "p", "a", "c", "e">>, <<"4", "2", "1">>, <<"x", ".", "t", "x", "t">>>>),
    Arg(TRUE, <<<<"e", "t", "c">>, <<"p", "a", "s", "s", "w", "d">>>>) }

\* The paths the agent passes to list_directory; the first is no path.
ListArgs ==
  { Arg(FALSE, <<>>),
    Arg(FALSE, <<<<".", "s", "s", "h">>>>),
    Arg(FALSE, <<DotDot, <<"4", "3">>>>),
    Arg(FALSE, <<DotDot, DotDot, <<"e", "t", "c">>>>),
    Arg(TRUE, <<<<"e", "t", "c">>, <<"p", "a", "s", "s", "w", "d">>>>),
    Arg(TRUE, <<<<"v", "a", "r">>, <<"l", "o", "g">>, Dot, <<"n", "g", "i", "n", "x">>>>),
    Arg(TRUE, <<<<"w", "o", "r", "k", "s", "p", "a", "c", "e">>, <<"4", "3">>>>),
    Arg(TRUE, <<<<"t", "m", "p">>>>),
    Arg(TRUE, <<<<"h", "o", "m", "e">>>>),
    Arg(TRUE, <<>>) }

FilesInit ==
  /\ fs = InitialFiles
  /\ fileCall = <<>>

\* The canonical path lies in the workspace: the workspace or beneath it.
Within(path, root) ==
  Len(root) <= Len(path) /\ SubSeq(path, 1, Len(root)) = root

\* run_command with ln -s target name, in the workspace.
ShellLink ==
  \E link \in Links :
    /\ Append(Workspace, link[1]) \notin DOMAIN fs
    /\ Cardinality({p \in DOMAIN fs : fs[p].kind = "link"}) < MaxLinks
    /\ fs' = fs @@ (Append(Workspace, link[1]) :> Node("link", link[2]))
    /\ UNCHANGED <<now, fileCall, classifyVars, pureVars, sendVars, userVars, approvalVars>>

\* What is kept of a call: the tool, the argument, whether the path existed,
\* its canonical form before the call, and the outcome.
FileCall(op, arg, files, outcome) ==
  [op |-> op, arg |-> arg,
   real |-> realpathSync(files, fullPathOf(arg, Workspace)),
   result |-> outcome.result, touched |-> outcome.touched]

ExecuteRead ==
  \E arg \in Args :
    /\ Len(fileCall) < MaxFileCalls
    /\ fileCall' = Append(fileCall, FileCall("read", arg, fs, executeRead(fs, arg, Workspace)))
    /\ UNCHANGED <<now, fs, classifyVars, pureVars, sendVars, userVars, approvalVars>>

ExecuteWrite ==
  \E arg \in Args :
    /\ Len(fileCall) < MaxFileCalls
    /\ fileCall' = Append(fileCall, FileCall("write", arg, fs, executeWrite(fs, arg, Workspace)))
    /\ fs' = executeWrite(fs, arg, Workspace).files
    /\ UNCHANGED <<now, classifyVars, pureVars, sendVars, userVars, approvalVars>>

ExecuteDelete ==
  \E arg \in DeleteArgs :
    /\ Len(fileCall) < MaxFileCalls
    /\ fileCall' = Append(fileCall, FileCall("delete", arg, fs, executeDelete(fs, arg, Workspace)))
    /\ fs' = executeDelete(fs, arg, Workspace).files
    /\ UNCHANGED <<now, classifyVars, pureVars, sendVars, userVars, approvalVars>>

ExecuteListDirectory ==
  \E arg \in ListArgs :
    /\ Len(fileCall) < MaxFileCalls
    /\ fileCall' = Append(fileCall,
         FileCall("list", arg, fs, executeListDirectory(fs, arg, Workspace)))
    /\ UNCHANGED <<now, fs, classifyVars, pureVars, sendVars, userVars, approvalVars>>

FilesNext ==
  \/ ShellLink
  \/ ExecuteRead
  \/ ExecuteWrite
  \/ ExecuteDelete
  \/ ExecuteListDirectory

(***************************************************************************)
(* The loop of the security test.                                           *)
(***************************************************************************)
MaxChecks == 2

\* result.name in JavaScript: undefined when the object has no such property.
property(obj, name) ==
  IF name \in DOMAIN obj THEN obj[name] ELSE undefined

\* The truth value JavaScript gives a value in a condition.
truthy(value) ==
  value \notin {undefined, FALSE}

\* checkCommand on the commands of the test, computed once.
checked == [k \in 1..Len(attacks) |-> checkCommand(attacks[k].cmd)]

\* The body of the test's loop for one entry: what checkCommand returned and
\* what the test makes of it.
verdict(k) ==
  LET result == checked[k]
      isBlocked == property(result, "blocked")
  IN [line |-> attacks[k].line, group |-> attacks[k].group, cmd |-> attacks[k].cmd,
      expected |-> attacks[k].expected,
      dangerous |-> result.dangerous,
      actual |-> IF truthy(isBlocked) THEN "blocked" ELSE "allowed"]

ClassifyInit ==
  checks = <<>>

\* checkCommand is called on a command of the list.
CheckCommandCalled ==
  \E k \in 1..Len(attacks) :
    /\ Len(checks) < MaxChecks
    /\ checks' = Append(checks, verdict(k))
    /\ UNCHANGED <<now, pureVars, fileVars, sendVars, userVars, approvalVars>>

ClassifyNext ==
  CheckCommandCalled

(***************************************************************************)
(* run_command on the commands of the security test and of the scenarios.   *)
(***************************************************************************)
MaxRuns == 2

\* One call of run_command's execute on a scenario command.
RunScenarioCommand ==
  \E command \in ScenarioCommands, c \in 1..Len(Contexts), rnd \in Suffixes(now), ok \in BOOLEAN :
    LET st == [store |-> pendingCommands, timers |-> timers,
               callback |-> showApprovalCallback, shown |-> shown,
               executed |-> executed, serial |-> nextSerial]
        r == execute(st, command, Contexts[c], now, rnd, ok)
    IN /\ Cardinality(executed) + nextSerial <= MaxRuns
       /\ pendingCommands' = r.store
       /\ timers' = r.timers
       /\ shown' = r.shown
       /\ executed' = r.executed
       /\ nextSerial' = r.serial
       /\ lastCall' = r.result
       /\ UNCHANGED <<fileVars, classifyVars, pureVars, sendVars, userVars, now, showApprovalCallback,
                      consumeLog>>

RunNext ==
  RunScenarioCommand


(***************************************************************************)
(* checkCommand called on its own, between calls of run_command.            *)
(***************************************************************************)
MaxCalls == 3

\* The commands checkCommand is called on.
CheckInputs == Commands \cup {CmdRmTmp, CmdSudo, CmdForkBomb}

\* A check whose patterns carry state from one call to the next, as patterns
\* with the g flag do through lastIndex: the call after a match misses.
checkCommandAfterMatch(command) ==
  IF Len(calls) > 0 /\ calls[Len(calls)].result.dangerous
  THEN [dangerous |-> FALSE, reason |-> undefined]
  ELSE Classification[command]

\* checkCommand(command) as a caller sees it: the argument and the value.
checkCommandCall(command) ==
  Classification[command]

CheckCommandOn ==
  \E command \in CheckInputs :
    /\ Len(calls) < MaxCalls
    /\ calls' = Append(calls, [command |-> command, result |-> checkCommandCall(command)])
    /\ UNCHANGED <<now, approvalVars, userVars, sendVars, fileVars, classifyVars, split>>

CheckNext ==
  \/ CheckCommandOn
  \/ RunCommand

(***************************************************************************)
(* splitMessage (bot).                                                      *)
(***************************************************************************)
MaxTextLen == 6
MaxSplitLen == 3

Newline == "\n"

RECURSIVE splitLines(_, _, _)
\* text.split('\n'): the lines of text from position i on, line being the
\* part of the current line read so far.
splitLines(text, i, line) ==
  IF i > Len(text) THEN <<line>>
  ELSE IF text[i] = Newline THEN <<line>> \o splitLines(text, i + 1, <<>>)
  ELSE splitLines(text, i + 1, Append(line, text[i]))

RECURSIVE splitLoop(_, _, _, _, _)
\* The for loop of splitMessage from line k on.
splitLoop(lines, k, maxLen, parts, current) ==
  IF k > Len(lines) THEN [parts |-> parts, current |-> current]
  ELSE LET line == lines[k] IN
    IF Len(current) + Len(line) + 1 > maxLen
    THEN splitLoop(lines, k + 1, maxLen,
                   IF current # <<>> THEN Append(parts, current) ELSE parts,
                   line)
    ELSE splitLoop(lines, k + 1, maxLen, parts,
                   current \o (IF current # <<>> THEN <<Newline>> ELSE <<>>) \o line)

splitMessage(text, maxLen) ==
  IF Len(text) <= maxLen THEN <<text>>
  ELSE LET r == splitLoop(splitLines(text, 1, <<>>), 1, maxLen, <<>>, <<>>)
       IN IF r.current # <<>> THEN Append(r.parts, r.current) ELSE r.parts

\* The texts splitMessage is called with: the handler passes a response that
\* is not empty.
SplitTexts == UNION {[1..n -> {"a", Newline}] : n \in 1..MaxTextLen}

NoSplit == [called |-> FALSE, text |-> <<>>, maxLen |-> 0, parts |-> <<>>]

PureInit ==
  /\ calls = <<>>
  /\ split = NoSplit

SplitMessageCalled ==
  \E text \in SplitTexts, maxLen \in 1..MaxSplitLen :
    /\ split' = [called |-> TRUE, text |-> text, maxLen |-> maxLen,
                 parts |-> splitMessage(text, maxLen)]
    /\ UNCHANGED <<now, approvalVars, userVars, sendVars, fileVars, classifyVars, calls>>

SplitNext ==
  SplitMessageCalled
(***************************************************************************)
(* The specifications.                                                     *)
(***************************************************************************)
Init ==
  /\ now = StartTime
  /\ ApprovalInit
  /\ UsersInit
  /\ SendInit
  /\ FilesInit
  /\ ClassifyInit
  /\ PureInit

\* The approval gate: run_command, the pending-command store, its timers and
\* the approve, deny and cancel handlers.
SpecApproval == Init /\ [][ApprovalNext]_vars

\* The text handler of the bot with the users limiter and the per-user lock.
\* The handler awaits its safeSend calls as calls that return; what safeSend
\* does with them is the matter of SpecSend.
SpecUsers == Init /\ [][UsersNext]_vars

\* safeSend and its callers, with the clock.
SpecSend == Init /\ [][SendNext]_vars

\* All the messages the bot process sends to Telegram.
SpecOutbound == Init /\ [][OutboundNext]_vars


\* read_file and write_file in a workspace where the agent also makes links.
SpecFiles == Init /\ [][FilesNext]_vars

\* checkCommand as the security test calls it.
SpecClassify == Init /\ [][ClassifyNext]_vars

\* run_command on the commands of the security test and of the scenarios.
SpecRun == Init /\ [][RunNext]_vars

\* checkCommand called directly, run_command being called in between.
SpecCheck == Init /\ [][CheckNext]_vars

\* splitMessage on every text and limit of the bounds.
SpecSplit == Init /\ [][SplitNext]_vars

\* Bound: the turns of the specification of the turns.
MaxTurns == 2

\* A message arrives that is no prompt injection.
TurnArrives ==
  /\ Len(handlers) < MaxTurns
  /\ TextArrives
  /\ ~Injection[handlers'[Len(handlers')].text]

\* The turns that reach withUserLock, at the default capacity.
TurnsNext ==
  \/ TurnArrives
  \/ Reacted
  \/ LockAcquired
  \/ GatewayReturns
  \/ FnSettles
  \/ LockReleased

\* The turns under the scheduling of the event loop: a continuation that can
\* run does run. callGateway returns within its deadline
\* (AbortSignal.timeout), and the sends of fn settle.
SpecTurns ==
  /\ Init
  /\ [][TurnsNext]_vars
  /\ WF_vars(Reacted)
  /\ WF_vars(LockAcquired)
  /\ WF_vars(GatewayReturns)
  /\ WF_vars(FnSettles)
  /\ WF_vars(LockReleased)

\* run_command is called while the clock of the model can still reach the
\* time the timer of a record stored now is due.
RunCommandInTime ==
  /\ now + COMMAND_TIMEOUT <= StartTime + MaxTicks * TtlTick
  /\ RunCommand

ExpiryNext ==
  \/ RunCommandInTime
  \/ EvictionTimer
  \/ OnApprove
  \/ OnDeny
  \/ CancelPending
  \/ ApprovalTick

\* The approval gate with time passing and the timers of setTimeout firing
\* once they are due.
SpecExpiry ==
  /\ Init
  /\ [][ExpiryNext]_vars
  /\ WF_vars(ApprovalTick)
  /\ WF_vars(EvictionTimer)

\* safeSend is called with no time passing since the last step: the calls
\* that queue behind one another.
SafeSendCalledAtOnce ==
  SafeSendCalled /\ now' = now

SendQueueNext ==
  \/ SafeSendCalledAtOnce
  \/ TurnGranted
  \/ GlobalWaitOver
  \/ GroupWaitOver
  \/ FnResolves
  \/ FnFails
  \/ FnRateLimited
  \/ RetrySleepOver

\* safeSend under the scheduling of the event loop: a continuation that can
\* run does run, a timer that is set fires, and every call of a send function
\* settles.
SpecSendQueue ==
  /\ Init
  /\ [][SendQueueNext]_vars
  /\ WF_vars(TurnGranted)
  /\ WF_vars(GlobalWaitOver)
  /\ WF_vars(GroupWaitOver)
  /\ WF_vars(FnResolves \/ FnFails \/ FnRateLimited)
  /\ WF_vars(RetrySleepOver)

(***************************************************************************)
(* Claims about the approval subsystem (checked under SpecApproval).      *)
(***************************************************************************)
\* C1: a command checkCommand classifies as dangerous is never run without
\* approval. Every call of executeCommand on a dangerous command was made by
\* the approve handler with a record consumePendingCommand returned (so not
\* by execute, storePendingCommand, the eviction timer or cancel), and an
\* execute call on a dangerous command makes one storePendingCommand call and
\* returns success=false with approval_required=true without reaching
\* executeCommand.
C1_DangerousNeedsApproval ==
  /\ \A e \in executed :
       Classification[e.command].dangerous =>
         /\ e.via = "approve"
         /\ \E c \in consumeLog : c.serial = e.serial
  /\ (lastCall.op = "execute" /\ lastCall.dangerous) =>
       /\ ~lastCall.ran
       /\ ~lastCall.success
       /\ lastCall.approval_required
       /\ lastCall.stored = 1

\* C1 witness: a dangerous command was stored and its eviction timer has run
\* with no handler having consumed it; nothing dangerous was run, and
\* execute's last answer was approval_required.
C1_Witness ==
  /\ lastCall.op = "execute" /\ lastCall.dangerous /\ lastCall.approval_required
  /\ \E tm \in timers : tm.fired
  /\ consumeLog = {}
  /\ \A e \in executed : ~Classification[e.command].dangerous

\* C2: every record storePendingCommand inserted is returned by at most one
\* consumePendingCommand call, whatever the order of the approve and deny
\* handlers; the other calls return undefined.
C2_ConsumeAtMostOnce ==
  \A c \in consumeLog : c.n = 1

\* C2 witness: a record was returned by one consume call, and a later
\* approve or deny of an id still held by the buttons got undefined.
C2_Witness ==
  /\ consumeLog # {}
  /\ lastCall.op \in {"approve", "deny"}
  /\ ~lastCall.found
  /\ \A tm \in timers : ~tm.fired /\ tm.serial \in {c.serial : c \in consumeLog}

\* C3 (as claimed): a consumePendingCommand call made when
\* Date.now() - createdAt >= 300 s returns undefined.
C3_TTLSoundness ==
  (lastCall.op \in {"approve", "deny"} /\ lastCall.found) => lastCall.age < COMMAND_TIMEOUT

\* C4 (as claimed): a command that matches a forbidden pattern is classified
\* Forbidden, not Dangerous, and never becomes a pending record.
C4_ForbiddenDominance ==
  /\ (lastCall.op = "execute" /\ lastCall.command \in ForbiddenCommands) =>
       ~lastCall.dangerous /\ ~lastCall.approval_required /\ ~lastCall.ran
  /\ \A id \in DOMAIN pendingCommands :
       pendingCommands[id].command \notin ForbiddenCommands


\* C24: every time execute finds a command dangerous and stores a pending
\* record, the show-approval callback is invoked once with the record's chat
\* id, command id, command and reason, in every execution context and also
\* before a callback was registered: no pending record was never shown.
C24_EveryPendingRecordShown ==
  \A id \in DOMAIN pendingCommands :
    \E s \in shown :
      /\ s.commandId = id
      /\ s.chatId = pendingCommands[id].chatId
      /\ s.command = pendingCommands[id].command
      /\ s.reason = pendingCommands[id].reason

\* C25: on an id that is absent (never stored, already consumed, cancelled or
\* evicted) consumePendingCommand returns undefined and cancelPendingCommand
\* returns false, and both leave the store as it is; on a present id
\* cancelPendingCommand returns true and a consume of that id after it
\* returns undefined.
C25_AbsentIdsAnswerNothing ==
  \A id \in IssuedIds \cup {<<0, 0>>} :
    LET consume == consumePendingCommand(pendingCommands, id)
        cancel == cancelPendingCommand(pendingCommands, id)
    IN IF id \notin DOMAIN pendingCommands
       THEN /\ consume.cmd = {}
            /\ consume.store = pendingCommands
            /\ cancel.ret = FALSE
            /\ cancel.store = pendingCommands
       ELSE /\ cancel.ret = TRUE
            /\ id \notin DOMAIN cancel.store
            /\ consumePendingCommand(cancel.store, id).cmd = {}

\* One record was consumed, the timer of another has evicted it, and a
\* cancel of an id that is absent has answered false while a record is
\* pending.
C25_Witness ==
  /\ lastCall.op = "cancel"
  /\ ~lastCall.found
  /\ consumeLog # {}
  /\ \E tm \in timers : tm.fired /\ tm.serial \notin {c.serial : c \in consumeLog}

\* C26: storePendingCommand never returns an id that is present in the
\* store: no store call overwrites another pending record, and the eviction
\* timer scheduled for one record never removes a different, later-stored
\* record. Every pending timer whose id is in the store stands for the very
\* record it was scheduled for.
C26_IdsNeverCollide ==
  \A tm \in timers :
    (~tm.fired /\ tm.id \in DOMAIN pendingCommands) =>
      pendingCommands[tm.id].serial = tm.serial

(***************************************************************************)
(* Claims on the users limiter and the per-user lock.                      *)
(***************************************************************************)
\* fn of handler h has started; it has settled; it is executing.
FnStarted(h) == handlers[h].pc \in {"fn", "reply", "settled", "done"}

FnSettled(h) == handlers[h].pc \in {"settled", "done"}

FnExecuting(h) == handlers[h].pc \in {"fn", "reply"}

\* C5: in every reachable state the size of activeUsers is at most
\* maxConcurrentUsers, also when two handlers passed canAcceptUser before
\* either reached markUserActive.
C5_ActiveWithinCapacity == Cardinality(activeUsers) <= maxConcurrentUsers

\* C6: for every user id, at most one fn passed to withUserLock is executing
\* (started and not settled) at any time.
C6_OneTurnPerUser ==
  \A i, j \in 1..Len(lockCalls) :
    (i # j /\ handlers[lockCalls[i]].userId = handlers[lockCalls[j]].userId) =>
      ~(FnExecuting(lockCalls[i]) /\ FnExecuting(lockCalls[j]))

C6_Witness ==
  \E i, j \in 1..Len(lockCalls) :
    /\ handlers[lockCalls[i]].userId = handlers[lockCalls[j]].userId
    /\ FnExecuting(lockCalls[i])
    /\ handlers[lockCalls[j]].pc = "waiting"

\* C7: of two withUserLock calls T1 then T2 for one user id, the fn of T1 has
\* settled when the fn of T2 starts, whatever the number of queued turns.
C7_TurnsInCallOrder ==
  \A i, j \in 1..Len(lockCalls) :
    (i < j /\ handlers[lockCalls[i]].userId = handlers[lockCalls[j]].userId
       /\ FnStarted(lockCalls[j])) => FnSettled(lockCalls[i])

\* Three turns of one user, each queued behind the one before, the third
\* running.
C7_Witness ==
  /\ Len(lockCalls) >= 3
  /\ \E i \in 1..(Len(lockCalls) - 2) :
       LET t1 == lockCalls[i]
           t2 == lockCalls[i + 1]
           t3 == lockCalls[i + 2]
       IN /\ handlers[t2].existing = {t1}
          /\ handlers[t3].existing = {t2}
          /\ FnSettled(t1) /\ FnSettled(t2)
          /\ FnExecuting(t3)


\* The handlers that called withUserLock (and markUserActive just before).
LockCallers ==
  {lockCalls[i] : i \in 1..Len(lockCalls)}

\* C17: for every message on which detectPromptInjection is true, the handler
\* never calls callGateway, markUserActive or withUserLock: it stands at the
\* busy reply or the injection reply, or has returned from one of them.
C17_InjectionNeverReachesModel ==
  \A h \in 1..Len(handlers) :
    Injection[handlers[h].text] =>
      /\ handlers[h].pc \in {"busy", "injection", "done"}
      /\ handlers[h].outcome \in {"none", "busy", "injection"}
      /\ h \notin LockCallers

\* An accepted message with an injection has been answered and the handler
\* has returned.
C17_Witness ==
  \E h \in 1..Len(handlers) :
    /\ Injection[handlers[h].text]
    /\ handlers[h].accepted
    /\ handlers[h].pc = "done"
    /\ handlers[h].outcome = "injection"

\* C18: canAcceptUser(u) is true exactly when u is in activeUsers or the size
\* of activeUsers is below maxConcurrentUsers; a declined turn gets the busy
\* message and never calls markUserActive, withUserLock or callGateway.
C18_DeclinedTurnGetsBusy ==
  /\ \A u \in Users :
       canAcceptUser(activeUsers, maxConcurrentUsers, u)
         <=> (u \in activeUsers \/ Cardinality(activeUsers) < maxConcurrentUsers)
  /\ \A h \in 1..Len(handlers) :
       ~handlers[h].accepted =>
         /\ handlers[h].pc \in {"busy", "done"}
         /\ handlers[h].pc = "done" => handlers[h].outcome = "busy"
         /\ handlers[h].outcome \in {"none", "busy"}
         /\ h \notin LockCallers

\* A turn was declined while another user held the only place, and got the
\* busy message.
C18_Witness ==
  \E h \in 1..Len(handlers) :
    /\ ~handlers[h].accepted
    /\ handlers[h].pc = "done"
    /\ handlers[h].outcome = "busy"
    /\ handlers[h].userId \notin activeUsers
    /\ Cardinality(activeUsers) >= maxConcurrentUsers
(***************************************************************************)
(* Claims on safeSend.                                                     *)
(***************************************************************************)
\* C8: any two invocations of a send function through safeSend, first
\* attempts and retries, on any chats, start at least globalMinInterval apart.
C8_GlobalSpacing ==
  \A i, j \in 1..Len(sendLog) :
    i < j => sendLog[j].at - sendLog[i].at >= globalMinInterval

\* A first attempt that waited out exactly the global interval after a retry
\* of another call to another chat.
C8_Witness ==
  \E j \in 2..Len(sendLog) :
    /\ sendLog[j].at - sendLog[j - 1].at = globalMinInterval
    /\ sendLog[j].call # sendLog[j - 1].call
    /\ sendLog[j].chatId # sendLog[j - 1].chatId
    /\ sendLog[j - 1].attempt > 1

\* C9: two successful sends to one group chat were invoked at least
\* groupMinInterval apart, also when the earlier one succeeded on a retry
\* after a 429.
C9_GroupSpacing ==
  \A i, j \in 1..Len(sendLog) :
    (/\ i < j
     /\ sendLog[i].chatId = sendLog[j].chatId
     /\ sendLog[i].chatId < 0
     /\ sendLog[i].result = "ok"
     /\ sendLog[j].result = "ok") =>
      sendLog[j].at - sendLog[i].at >= groupMinInterval

\* A call is in its critical section from the end of its await of myTurn to
\* its return.
InCriticalSection(i) == sends[i].pc \in {"globalWait", "groupWait", "fn", "retrySleep"}

\* C10: at most one safeSend call is in its critical section, and a later
\* caller is neither in it nor through it before the earlier caller returned.
C10_OneSendAtATime ==
  /\ Cardinality({i \in 1..Len(sends) : InCriticalSection(i)}) <= 1
  /\ \A i, j \in 1..Len(sends) :
       (i < j /\ sends[j].pc # "queued") => sends[i].pc = "done"

\* The earlier caller sleeps for a 429 while the later one is queued.
C10_Witness ==
  \E i, j \in 1..Len(sends) :
    /\ i < j
    /\ sends[i].pc = "retrySleep"
    /\ sends[j].pc = "queued"


\* C28: the send functions passed to safeSend are invoked for the first time
\* in the order in which safeSend was called: a first invocation comes after
\* the first invocations of all the calls made before it, so the parts of
\* one response, and two sends to one chat, are never reordered.
C28_FirstInvocationsInCallOrder ==
  \A b \in 1..Len(sendLog) :
    sendLog[b].attempt = 1 =>
      /\ \A a \in 1..(b - 1) : sendLog[a].call <= sendLog[b].call
      /\ \A i \in 1..(sendLog[b].call - 1) :
           \E a \in 1..(b - 1) : sendLog[a].call = i /\ sendLog[a].attempt = 1

\* The second of two sends to one chat was first invoked after the retry of
\* the first.
C28_Witness ==
  \E b \in 3..Len(sendLog) :
    /\ sendLog[b].call = 2 /\ sendLog[b].attempt = 1
    /\ sendLog[b - 1].call = 1 /\ sendLog[b - 1].attempt = 2
    /\ sendLog[b].chatId = sendLog[1].chatId

(***************************************************************************)
(* Claims on the outbound messages and on the retries of safeSend.         *)
(***************************************************************************)
\* The times at which messages went out to Telegram, through safeSend or not.
OutboundTimes ==
  {<<"safeSend", k, sendLog[k].at>> : k \in 1..Len(sendLog)}
    \cup {<<"direct", k, directLog[k].at>> : k \in 1..Len(directLog)}

\* C11: any two outbound messages of the process, command replies and the
\* scheduler's POST /send included, are at least globalMinInterval apart.
C11_OutboundSpacing ==
  \A a, b \in OutboundTimes :
    (a # b /\ a[3] <= b[3]) => b[3] - a[3] >= globalMinInterval

\* The entries of the log that belong to call i.
AttemptsOf(i) == {k \in 1..Len(sendLog) : sendLog[k].call = i}

\* C12: one safeSend call invokes its send function at most maxRetries times;
\* after a 429 on an attempt that is not the last it sleeps retry_after + 5
\* seconds before the next attempt; when every attempt fails with 429 it
\* returns null.
C12_RetryPolicy ==
  \A i \in 1..Len(sends) :
    /\ Cardinality(AttemptsOf(i)) <= maxRetries
    /\ \A k \in AttemptsOf(i) : sendLog[k].attempt \in 1..maxRetries
    /\ \A k \in AttemptsOf(i) :
         (sendLog[k].result = "429" /\ sendLog[k].attempt < maxRetries) =>
           \A ra \in sendLog[k].retry_after :
             IF k = Len(sendLog)
               THEN /\ sends[i].pc = "retrySleep"
                    /\ sends[i].due - sendLog[k].ended >= (ra + retryBuffer) * 1000
               ELSE /\ sendLog[k + 1].call = i
                    /\ sendLog[k + 1].attempt = sendLog[k].attempt + 1
                    /\ sendLog[k + 1].at - sendLog[k].ended >= (ra + retryBuffer) * 1000
    /\ (/\ Cardinality(AttemptsOf(i)) = maxRetries
        /\ \A k \in AttemptsOf(i) : sendLog[k].result = "429") =>
         (sends[i].pc = "done" /\ sends[i].result = "null")

\* A call whose maxRetries attempts were all answered 429, one of them with a
\* retry_after of 1 s, and that has returned.
C12_Witness ==
  \E i \in 1..Len(sends) :
    /\ Cardinality(AttemptsOf(i)) = maxRetries
    /\ \A k \in AttemptsOf(i) : sendLog[k].result = "429"
    /\ \E k \in AttemptsOf(i) : sendLog[k].retry_after = {1} /\ sendLog[k].attempt < maxRetries
    /\ sends[i].pc = "done"

\* C13: an error that is not a 429 makes safeSend return null with no further
\* attempt; a success makes it return the value with no further attempt;
\* safeSend never throws.
C13_NoRetryOnOtherOutcomes ==
  /\ \A k \in 1..Len(sendLog) :
       sendLog[k].result \in {"ok", "error"} =>
         /\ sends[sendLog[k].call].pc = "done"
         /\ sends[sendLog[k].call].result = (IF sendLog[k].result = "ok" THEN "sent" ELSE "null")
         /\ \A m \in AttemptsOf(sendLog[k].call) : m <= k
         /\ sendLog[k].call \in released
  /\ \A i \in 1..Len(sends) : sends[i].result \in {"none", "sent", "null"}

\* A call that returned null on an error at its second attempt, and one that
\* returned the value of its send function.
C13_Witness ==
  /\ \E k \in 1..Len(sendLog) : sendLog[k].result = "error" /\ sendLog[k].attempt = 2
  /\ \E k \in 1..Len(sendLog) : sendLog[k].result = "ok"

(***************************************************************************)
(* Claims about read_file and write_file.                                   *)
(***************************************************************************)
\* The canonical workspace.
RealWorkspace ==
  CHOOSE p \in realpathSync(fs, Workspace) : TRUE

\* C14: write_file never creates or modifies a file whose canonical location
\* is outside the workspace, whatever ".." segments and links, existing or
\* leading to a file that does not exist yet, the path goes through.
C14_WriteStaysInWorkspace ==
  \A k \in 1..Len(fileCall) :
    fileCall[k].op = "write" =>
      \A p \in fileCall[k].touched : Within(p, RealWorkspace)

\* C15: read_file answers blocked and reads nothing for every existing path
\* whose canonical form is neither the workspace nor beneath it.
C15_ReadOutsideBlocked ==
  \A k \in 1..Len(fileCall) :
    (/\ fileCall[k].op = "read"
     /\ \E p \in fileCall[k].real : ~Within(p, RealWorkspace))
    => (fileCall[k].result = "blocked" /\ fileCall[k].touched = {})

\* A link in the workspace that leads to an existing file outside of it has
\* been asked for.
C15_Witness ==
  \E k \in 1..Len(fileCall) :
    /\ fileCall[k].op = "read"
    /\ ~fileCall[k].arg.absolute
    /\ Len(fileCall[k].arg.segs) = 1
    /\ \E p \in fileCall[k].real : ~Within(p, RealWorkspace)
    /\ fileCall[k].result = "blocked"

\* C16: read_file answers blocked for every path whose canonical form names a
\* sensitive file, a link with an innocuous name included.
C16_ReadSensitiveBlocked ==
  \A k \in 1..Len(fileCall) :
    (/\ fileCall[k].op = "read"
     /\ \E p \in fileCall[k].real : isSensitiveFile(p))
    => fileCall[k].result = "blocked"

(***************************************************************************)
(* Claims about checkCommand on the attack commands.                        *)
(***************************************************************************)
\* The command was reported against: blocked as the test reads it, or at
\* least flagged dangerous.
Refused(check) ==
  check.actual = "blocked" \/ check.dangerous

\* C19: checkCommand reports as blocked every command that reads, lists or
\* links a secret location: cat, head, ls and ln -s on /run/secrets or
\* beneath it, cat and strings on /proc/<pid or self>/environ.
C19_SecretLocationsBlocked ==
  \A k \in 1..Len(checks) :
    checks[k].group \in {"Direct secrets access", "Symlink attacks", "Proc filesystem"}
      => Refused(checks[k])

\* The command is a one-liner of an interpreter that names the environment.
NamesEnvironment(cmd) ==
  includes(cmd, <<"e", "n", "v", "i", "r", "o", "n">>) \/ includes(cmd, <<"p", "r", "o", "c", "e", "s", "s", ".", "e", "n", "v">>)

\* C20: checkCommand reports as blocked every command that inspects the
\* environment: env, printenv, export and set alone, echo of $TELEGRAM_TOKEN
\* or ${API_KEY}, python and node one-liners that name os.environ, environ
\* or process.env.
C20_EnvInspectionBlocked ==
  \A k \in 1..Len(checks) :
    (\/ checks[k].group = "Env commands"
     \/ /\ checks[k].group \in {"Python attacks", "Node.js attacks"}
        /\ NamesEnvironment(checks[k].cmd))
      => Refused(checks[k])

\* C21: checkCommand reports as blocked every command that re-encodes data
\* for exfiltration or contacts an internal service: base64, xxd, hexdump, od
\* and openssl enc on a sensitive path or on stdin, curl and wget to the
\* proxy host, npx runs of the listed packages.
C21_ExfiltrationBlocked ==
  \A k \in 1..Len(checks) :
    checks[k].group \in {"Base64 exfiltration", "Curl to internal services",
                         "NPX malicious packages", "Hex dump", "OpenSSL encoding"}
      => Refused(checks[k])

(***************************************************************************)
(* Claims about the classification of the scenario commands.                *)
(***************************************************************************)
\* The legitimate commands of the security test.
PermittedCommands ==
  {attacks[k].cmd : k \in {j \in 1..Len(attacks) : attacks[j].expected = "allowed"}}

\* C22: checkCommand allows, with neither a blocked nor a dangerous result,
\* every permitted command of the corpus, and run_command executes it without
\* creating a pending record.
C22_PermittedCommandsRun ==
  /\ \A command \in PermittedCommands :
       /\ ~Classification[command].dangerous
       /\ ~truthy(property(Classification[command], "blocked"))
  /\ (lastCall.op = "execute" /\ lastCall.command \in PermittedCommands) =>
       /\ ~lastCall.dangerous
       /\ ~lastCall.approval_required
       /\ lastCall.ran
       /\ lastCall.stored = 0
       /\ \E e \in executed : e.command = lastCall.command /\ e.via = "execute"
  /\ \A id \in DOMAIN pendingCommands :
       pendingCommands[id].command \notin PermittedCommands

\* A permitted command has run while a dangerous one waits for approval.
C22_Witness ==
  /\ lastCall.op = "execute"
  /\ lastCall.command \in PermittedCommands
  /\ lastCall.ran
  /\ pendingCommands # EmptyMap

\* C23: rm -rf on an absolute path outside root and home is Dangerous with
\* the reason "Force recursive delete", sudo apt-get update with "Root
\* privileges", the fork bomb with "Fork bomb".
C23_DangerousReasons ==
  /\ \A command \in {CmdRmTmp, CmdSudo, CmdForkBomb} : Classification[command].dangerous
  /\ \A id \in DOMAIN pendingCommands :
       LET record == pendingCommands[id] IN
         /\ record.command = CmdRmTmp => record.reason = "Force recursive delete"
         /\ record.command = CmdSudo => record.reason = "Root privileges"
         /\ record.command = CmdForkBomb => record.reason = "Fork bomb"

\* The blocked directories, as paths.
BlockedPaths ==
  { <<<<"e", "t", "c">>>>, <<<<"r", "o", "o", "t">>>>, <<<<"p", "r", "o", "c">>>>, <<<<"s", "y", "s">>>>, <<<<"d", "e", "v">>>>, <<<<"b", "o", "o", "t">>>>,
    <<<<"v", "a", "r">>, <<"l", "o", "g">>>>, <<<<"v", "a", "r">>, <<"r", "u", "n">>>> }

\* The path a call names, "." and ".." resolved.
ResolvedArg(call) ==
  resolve(fullPathOf(call.arg, Workspace))

\* C27: list_directory refuses, without running ls, every path that after
\* resolving "." and ".." is one of the blocked directories or lies beneath
\* one, or that has a .ssh segment; /etc/passwd is refused as under /etc.
C27_BlockedDirectoriesRefused ==
  \A k \in 1..Len(fileCall) :
    (/\ fileCall[k].op = "list"
     /\ \/ \E blocked \in BlockedPaths : Within(ResolvedArg(fileCall[k]), blocked)
        \/ \E n \in 1..Len(ResolvedArg(fileCall[k])) : ResolvedArg(fileCall[k])[n] = <<".", "s", "s", "h">>)
    => (fileCall[k].result = "blocked" /\ fileCall[k].touched = {})

\* A relative path that climbs out of the workspace into /etc was refused.
C27_Witness ==
  \E k \in 1..Len(fileCall) :
    /\ fileCall[k].op = "list"
    /\ ~fileCall[k].arg.absolute
    /\ Within(ResolvedArg(fileCall[k]), <<<<"e", "t", "c">>>>)
    /\ fileCall[k].result = "blocked"

\* C29: delete_file removes a file only when its resolved path is the
\* workspace or lies beneath workspace + "/"; a path in a sibling directory
\* whose name begins with the workspace path is refused.
C29_DeleteStaysInWorkspace ==
  \A k \in 1..Len(fileCall) :
    (fileCall[k].op = "delete" /\ fileCall[k].touched # {})
      => Within(ResolvedArg(fileCall[k]), Workspace)

\* C30: list_directory lists only directories inside the workspace: for
\* every path that resolves outside of it, it refuses and runs no ls.
C30_ListStaysInWorkspace ==
  \A k \in 1..Len(fileCall) :
    (fileCall[k].op = "list" /\ ~Within(ResolvedArg(fileCall[k]), Workspace))
      => (fileCall[k].result = "blocked" /\ fileCall[k].touched = {})


(***************************************************************************)
(* Claims about checkCommand as a function.                                 *)
(***************************************************************************)
\* The indices of the patterns of DANGEROUS_PATTERNS that match a command.
Matching ==
  [command \in Commands \cup ScenarioCommands |->
     {k \in 1..Len(DANGEROUS_PATTERNS) : Test(DANGEROUS_PATTERNS[k].pattern, command)}]

FirstMatching(command) ==
  CHOOSE k \in Matching[command] : \A j \in Matching[command] : k <= j

\* C31: checkCommand finds a command dangerous exactly when some pattern of
\* DANGEROUS_PATTERNS matches it, and the reason is that of the first matching
\* pattern in declared order, whatever later patterns match as well.
C31_FirstMatchGivesReason ==
  /\ lastCall.op = "execute" =>
       lastCall.dangerous = (Matching[lastCall.command] # {})
  /\ \A id \in DOMAIN pendingCommands :
       LET record == pendingCommands[id] IN
         /\ Matching[record.command] # {}
         /\ record.reason = DANGEROUS_PATTERNS[FirstMatching(record.command)].reason
  /\ \A e \in executed : e.via = "execute" => Matching[e.command] = {}

\* A command that two patterns with different reasons match is pending with
\* the reason of the earlier one.
C31_Witness ==
  \E id \in DOMAIN pendingCommands :
    LET record == pendingCommands[id] IN
      /\ \E k \in Matching[record.command] :
           /\ k > FirstMatching(record.command)
           /\ DANGEROUS_PATTERNS[k].reason # record.reason
      /\ record.reason = DANGEROUS_PATTERNS[FirstMatching(record.command)].reason

RECURSIVE Flatten(_)
Flatten(parts) ==
  IF parts = <<>> THEN <<>> ELSE Head(parts) \o Flatten(Tail(parts))

NoNewlines(text) == SelectSeq(text, LAMBDA c : c # Newline)

\* C39: every part splitMessage(text, maxLen) returns has at most maxLen
\* characters, also for a text with one line longer than maxLen; the parts are
\* not empty and follow the order of the text.
C39_PartsWithinLimit ==
  split.called =>
    /\ \A k \in 1..Len(split.parts) :
         /\ Len(split.parts[k]) <= split.maxLen
         /\ split.parts[k] # <<>>
    /\ NoNewlines(Flatten(split.parts)) = NoNewlines(split.text)

(***************************************************************************)
(* More claims on the text handler and the per-user lock.                   *)
(***************************************************************************)
\* C34: a turn whose fn ended with an error has its lock released like any
\* other: its promise is resolved and its entry is gone from userLocks, the
\* way fn ended is what withUserLock hands on, the step that settles fn takes
\* the user out of activeUsers, and a turn queued
\* behind it starts; with every fn settling, every queued turn starts in the
\* end.
C34_FailedTurnReleasesLock ==
  /\ [](\A h \in LockCallers :
          handlers[h].pc = "done" =>
            /\ h \in resolvedLocks
            /\ \A u \in DOMAIN userLocks : userLocks[u] # h)
  /\ [][\A h \in 1..Len(handlers) :
          /\ (handlers[h].pc = "reply" /\ handlers'[h].pc = "settled") =>
               handlers[h].userId \notin activeUsers'
          /\ (handlers[h].pc = "settled" /\ handlers'[h].pc = "done") =>
               handlers'[h].outcome = handlers[h].outcome]_vars
  /\ \A h \in 1..MaxHandlers :
       (h <= Len(handlers) /\ handlers[h].pc = "waiting")
         ~> (h <= Len(handlers) /\ FnStarted(h))

\* A turn runs whose predecessor, of the same user, ended with an error.
C34_Witness ==
  \E h \in LockCallers :
    /\ handlers[h].existing # {}
    /\ FnExecuting(h)
    /\ \A g \in handlers[h].existing :
         handlers[g].outcome = "error" /\ handlers[g].pc = "done"

\* The last turn of user u that called withUserLock.
LastTurn(u) ==
  LET calls_u == {i \in 1..Len(lockCalls) : handlers[lockCalls[i]].userId = u}
  IN lockCalls[CHOOSE i \in calls_u : \A j \in calls_u : j <= i]

\* C35: turns of distinct users are independent in withUserLock: a turn
\* waits for a promise of its own user only, and the entry of a user in
\* userLocks is the promise of that user's last turn for as long as that turn
\* has not released it, whatever the turns of other users do.
C35_UsersIndependent ==
  /\ \A h \in 1..Len(handlers) :
       \A e \in handlers[h].existing : handlers[e].userId = handlers[h].userId
  /\ \A h \in LockCallers :
       LET u == handlers[h].userId IN
         (h = LastTurn(u) /\ handlers[h].pc # "done") =>
           (u \in DOMAIN userLocks /\ userLocks[u] = h)
  /\ \A u \in DOMAIN userLocks : handlers[userLocks[u]].userId = u

\* A turn of one user runs, started while a turn of another user ran, and
\* that other turn has released its lock since.
C35_Witness ==
  \E a, b \in LockCallers :
    /\ handlers[a].userId # handlers[b].userId
    /\ FnExecuting(a)
    /\ handlers[a].existing = {}
    /\ handlers[b].pc = "done"
    /\ userLocks[handlers[a].userId] = a

\* C36: the prompt-injection check comes before the capacity check: a message
\* with an injection gets the deflection, never the server-busy message, also
\* when the server is at capacity.
C36_InjectionBeforeCapacity ==
  \A h \in 1..Len(handlers) :
    Injection[handlers[h].text] =>
      /\ handlers[h].pc \in {"injection", "done"}
      /\ handlers[h].outcome \in {"none", "injection"}

\* C38: activeUsers is the set of the users with a turn in progress: every
\* user with a turn queued or running in withUserLock is in activeUsers, also
\* after an earlier turn of that user finished, and every user in activeUsers
\* has such a turn.
C38_ActiveUsersAreTheUsersInTurn ==
  /\ \A h \in LockCallers :
       handlers[h].pc \in {"waiting", "fn", "reply"} => handlers[h].userId \in activeUsers
  /\ \A u \in activeUsers :
       \E h \in LockCallers :
         handlers[h].userId = u /\ handlers[h].pc \in {"waiting", "fn", "reply"}

(***************************************************************************)
(* More claims on the approval gate.                                        *)
(***************************************************************************)
\* The record the last storePendingCommand call put in the store is there
\* still.
LastStoredPending ==
  \E id \in DOMAIN pendingCommands : pendingCommands[id].serial = nextSerial - 1

\* C37: a dangerous tool call suspends the turn: execute of run_command does
\* not return to the LLM loop before the pending record has been consumed or
\* has expired.
C37_DangerousCallSuspendsTurn ==
  (lastCall.op = "execute" /\ lastCall.approval_required) => ~LastStoredPending

\* The record of the store call numbered serial is in the store.
Pending(serial) ==
  \E id \in DOMAIN pendingCommands : pendingCommands[id].serial = serial

C40_EverySendReturns ==
  /\ \A i \in 1..MaxSends :
       (i <= Len(sends)) ~> (i <= Len(sends) /\ sends[i].pc = "done")
  /\ [](\A i \in 1..Len(sends) :
          sends[i].pc = "done" => (i \in released /\ sends[i].result \in {"sent", "null"}))

\* A call returned after another one before it had used up its retries and
\* returned null.
C40_Witness ==
  \E i, j \in 1..Len(sends) :
    /\ i < j
    /\ sends[i].pc = "done" /\ sends[i].result = "null" /\ sends[i].attempt = maxRetries
    /\ sends[j].pc = "done"
====
